---- MODULE Spec2Model ----
(***************************************************************************)
(* A model of the a314d bridge daemon (Software/a314d/a314d.cc): the       *)
(* channel multiplexer, the client registry, the R2A/A2R ring flow control *)
(* and the event loop.  Every C function of the daemon is an operator from *)
(* a state record to a state record; an action of the specification is one *)
(* whole event handler of main_loop.                                       *)
(***************************************************************************)
EXTENDS Integers, Sequences, FiniteSets, TLC

(***************************************************************************)
(* Program constants.                                                      *)
(***************************************************************************)
R_EVENT_A2R_TAIL == 1
R_EVENT_R2A_HEAD == 2
R_EVENT_BASE_ADDRESS == 4
A_EVENT_R2A_TAIL == 1
A_EVENT_A2R_HEAD == 2

A2R_TAIL_OFFSET == 0
R2A_HEAD_OFFSET == 1
R2A_TAIL_OFFSET == 2
A2R_HEAD_OFFSET == 3

PKT_CONNECT == 4
PKT_CONNECT_RESPONSE == 5
PKT_DATA == 6
PKT_EOS == 7
PKT_RESET == 8

CONNECT_OK == 0
CONNECT_UNKNOWN_SERVICE == 3

MSG_REGISTER_REQ == 1
MSG_REGISTER_RES == 2
MSG_DEREGISTER_REQ == 3
MSG_DEREGISTER_RES == 4
MSG_CONNECT == 9
MSG_CONNECT_RESPONSE == 10
MSG_DATA == 11
MSG_EOS == 12
MSG_RESET == 13

MSG_SUCCESS == 1
MSG_FAIL == 0

\* The null pointer (no association, no channel found).
Nullptr == 0

(***************************************************************************)
(* Bounds of the model.                                                    *)
(***************************************************************************)
\* Client connections that can be open at once (their identities are reused).
MaxClients == 2
\* Largest channel id the peer uses.
MaxChannelId == 2
\* Largest next_stream_id a client reaches.
MaxStreamId == 5
\* Longest packet_queue of a channel after a handler.
MaxPQ == 2
\* Longest message_queue of a client after a handler.
MaxMQ == 1
\* Packets the peer puts into the A2R ring before one IRQ.
MaxIrqPkts == 1
\* Packets written to the R2A ring that the daemon has not yet seen consumed.
MaxRing == 2
MaxWait == 1

VARIABLES
  connections,            \* std::list<ClientConnection>
  services,               \* std::list<RegisteredService>
  channels,               \* std::list<LogicalChannel>
  send_queue,             \* std::list<LogicalChannel*>, as channel ids
  have_base_address,
  base_address,
  channel_status,         \* uint8_t[4], index offset+1
  channel_status_updated,
  pc,                     \* position of the process: "start", "loop", "done", "exit"
  first_gpio_event,
  shutting_down,
  server_socket,          \* TRUE while the listener is open
  sram_status,            \* the four status bytes in the peer's SRAM
  r2a_unconsumed,         \* bytes in the R2A ring the peer has not consumed
  r2a_packets,            \* packets in the R2A ring the peer has not consumed
  r2a_stale,              \* packets consumed since the daemon last read R2A_HEAD
  world,                  \* the environment of the run, fixed at its start
  codec,                  \* the R2A ring of the ring codec, byte by byte
  timeout                 \* what is left of the timeout of epoll_pwait, in ticks

vars == <<connections, services, channels, send_queue, have_base_address,
          base_address, channel_status, channel_status_updated, pc,
          first_gpio_event, shutting_down, server_socket, sram_status,
          r2a_unconsumed, r2a_packets, r2a_stale, world, codec, timeout>>

(***************************************************************************)
(* The environments.  "wide": several clients and channels, small          *)
(* payloads, a peer that empties the R2A ring and interrupts before the    *)
(* next client event.  "ring": one client and one channel, payloads that   *)
(* fill the R2A ring, a peer that consumes at any time.  "solo": one       *)
(* client and one channel, on-demand services, connect responses without a *)
(* status byte, a client socket whose write() can fail or find the buffer  *)
(* full.                                                                   *)
(***************************************************************************)
Worlds == {"wide", "ring", "solo"}

Clients == IF world = "wide" THEN 1..MaxClients ELSE {1}
ChannelIds == IF world = "wide" THEN 1..MaxChannelId ELSE {1}

\* Service names, as the bytes of a packet or message payload.
NameA == <<97>>
NameOd == <<111>>
NameX == <<120>>
\* Names clients register, and names the peer connects to.
RegisterNames == IF world = "solo" THEN {NameA, NameOd} ELSE {NameA}
ConnectNames == IF world = "solo" THEN {NameA, NameOd, NameX} ELSE {NameA, NameX}
\* on_demand_services as loaded from the configuration file.
on_demand_services == <<NameOd>>

Zeros(n) == [i \in 1..n |-> 0]
\* Payloads of MSG_DATA: a small one, one that fills the R2A ring alone, one that
\* is a byte longer, and one whose length needs more than 8 bits.
DataPayloads ==
  IF world = "ring" THEN {Zeros(1), Zeros(252), Zeros(253)}
  ELSE IF world = "solo" THEN {Zeros(1), Zeros(256)}
  ELSE {Zeros(1)}
\* Payloads of PKT_DATA from the peer.
PktDataPayloads == {Zeros(1)}
\* Payloads of MSG_CONNECT_RESPONSE: accept, refuse, and no status byte.
ResponsePayloads ==
  IF world = "solo" THEN {<<CONNECT_OK>>, <<CONNECT_UNKNOWN_SERVICE>>, <<>>}
  ELSE {<<CONNECT_OK>>, <<CONNECT_UNKNOWN_SERVICE>>}
\* What the read of payload[0] gives when the payload is empty.
OutOfBounds == IF world = "solo" THEN {0, 1} ELSE {}
\* Values read from R_EVENTS by spi_ack_irq.
EventValues == {0, 1, 2, 4, 5}
\* Outcomes of write() on a client socket during one handler.
WriteResults ==
  IF world = "solo" THEN {"ok", "eagain", "reset", "error"} ELSE {"ok"}

(***************************************************************************)
(* Helpers for lists and bit masks.                                        *)
(***************************************************************************)
\* The element of a set of one element: The({e : s \in {d}}) is e with s bound
\* to the value of d.
The(S) == CHOOSE r \in S : TRUE

\* value & bit, for a single bit.
BitSet(value, bit) == (value \div bit) % 2 = 1
\* value | bit, for a single bit.
BitOr(value, bit) == IF BitSet(value, bit) THEN value ELSE value + bit

\* list.erase(std::find(begin, end, x)); erasing end() is left without effect.
EraseFirst(s, x) ==
  IF \E i \in 1..Len(s) : s[i] = x
  THEN LET i == CHOOSE k \in 1..Len(s) : s[k] = x /\ \A j \in 1..(k - 1) : s[j] # x
       IN [k \in 1..(Len(s) - 1) |-> IF k < i THEN s[k] ELSE s[k + 1]]
  ELSE s

\* list.erase(it) at position i.
EraseAt(s, i) == [k \in 1..(Len(s) - 1) |-> IF k < i THEN s[k] ELSE s[k + 1]]

\* Position of the connection with identity cc in connections, 0 if there is none.
ConnIdx(st, cc) ==
  IF \E i \in 1..Len(st.connections) : st.connections[i].id = cc
  THEN CHOOSE i \in 1..Len(st.connections) : st.connections[i].id = cc
  ELSE 0

\* Position of the first channel with this channel_id in channels, 0 if none.
ChanIdx(st, channel_id) ==
  IF \E i \in 1..Len(st.channels) : st.channels[i].channel_id = channel_id
  THEN CHOOSE i \in 1..Len(st.channels) :
         /\ st.channels[i].channel_id = channel_id
         /\ \A j \in 1..(i - 1) : st.channels[j].channel_id # channel_id
  ELSE 0

RECURSIVE Concat(_)
\* The byte strings of a sequence, one after the other.
Concat(ss) == IF ss = <<>> THEN <<>> ELSE Head(ss) \o Concat(Tail(ss))

\* The log of one handler, empty at its start.
EmptyLog == [msgs |-> <<>>, written |-> <<>>, erased |-> <<>>,
             closes |-> <<>>, teardown |-> <<>>, send_buf |-> <<>>, bus |-> <<>>,
             posted |-> <<>>]

(***************************************************************************)
(* create_and_send_msg: the message is appended to message_queue when that *)
(* is not empty; otherwise it is written to the socket, and st.wr is what   *)
(* write() does in this handler.  The log entry says where the message went *)
(* (fate) and, for a message about channel chan (0: none), whether the      *)
(* stream had already had its EOS from the peer and whether the channel had *)
(* already been dissociated from this client.                              *)
(***************************************************************************)
\* As create_and_send_msg, with ECONNRESET handled as the other errors of write().
create_and_send_msg_reset_fatal(st, cc, type, stream_id, data, chan) ==
  LET i == ConnIdx(st, cc)
      ci == ChanIdx(st, chan)
      mb == [type |-> type, stream_id |-> stream_id, length |-> Len(data)]
      queued == i # 0 /\ st.connections[i].message_queue # <<>>
      fate == IF queued \/ st.wr = "eagain" THEN "queued"
              ELSE IF st.wr = "ok" THEN "written"
              ELSE IF st.wr = "reset" THEN "dropped" ELSE "fatal"
      entry == [cc |-> cc, type |-> type, stream_id |-> stream_id, data |-> data,
                fate |-> fate,
                after_eos |-> ci # 0 /\ st.channels[ci].got_eos_from_ami,
                to_ex |-> ci # 0 /\ st.channels[ci].ex = cc]
      s1 == [st EXCEPT !.log.msgs = Append(@, entry)]
  IN IF st.exited \/ i = 0 THEN st
     ELSE IF fate = "queued"
       THEN [s1 EXCEPT !.connections[i].message_queue = Append(@, mb)]
     ELSE IF fate \in {"fatal", "dropped"} THEN [s1 EXCEPT !.exited = TRUE]
     ELSE s1

create_and_send_msg(st, cc, type, stream_id, data, chan) ==
  LET i == ConnIdx(st, cc)
      ci == ChanIdx(st, chan)
      mb == [type |-> type, stream_id |-> stream_id, length |-> Len(data)]
      queued == i # 0 /\ st.connections[i].message_queue # <<>>
      fate == IF queued \/ st.wr = "eagain" THEN "queued"
              ELSE IF st.wr = "ok" THEN "written"
              ELSE IF st.wr = "reset" THEN "dropped" ELSE "fatal"
      entry == [cc |-> cc, type |-> type, stream_id |-> stream_id, data |-> data,
                fate |-> fate,
                after_eos |-> ci # 0 /\ st.channels[ci].got_eos_from_ami,
                to_ex |-> ci # 0 /\ st.channels[ci].ex = cc]
      s1 == [st EXCEPT !.log.msgs = Append(@, entry)]
  IN IF st.exited \/ i = 0 THEN st
     ELSE IF fate = "queued"
       THEN [s1 EXCEPT !.connections[i].message_queue = Append(@, mb)]
     ELSE IF fate = "fatal" THEN [s1 EXCEPT !.exited = TRUE]
     ELSE s1

(***************************************************************************)
(* Queues of packets.                                                      *)
(***************************************************************************)
\* As remove_association, with ch->association and ch->stream_id left as they are.
remove_association_keeps_pointer(st, channel_id) ==
  LET ci == ChanIdx(st, channel_id)
      cc == st.channels[ci].association
      i == ConnIdx(st, cc)
      s1 == IF i = 0 THEN st
            ELSE [st EXCEPT !.connections[i].associations = EraseFirst(@, channel_id)]
  IN [s1 EXCEPT !.channels[ci].ex = cc]

remove_association(st, channel_id) ==
  LET ci == ChanIdx(st, channel_id)
      cc == st.channels[ci].association
      i == ConnIdx(st, cc)
      s1 == IF i = 0 THEN st
            ELSE [st EXCEPT !.connections[i].associations = EraseFirst(@, channel_id)]
  IN [s1 EXCEPT !.channels[ci].association = Nullptr,
                !.channels[ci].stream_id = 0,
                !.channels[ci].ex = cc]

clear_packet_queue(st, channel_id) ==
  LET ci == ChanIdx(st, channel_id)
  IN IF st.channels[ci].packet_queue # <<>>
     THEN [st EXCEPT !.channels[ci].packet_queue = <<>>,
                     !.send_queue = EraseFirst(@, channel_id)]
     ELSE st

\* As create_and_enqueue_packet, without send_queue.push_back(ch).
create_and_enqueue_packet_unlisted(st, channel_id, type, data, length) ==
  LET ci == ChanIdx(st, channel_id)
      len8 == length % 256
      pq == st.channels[ci].packet_queue
      pb == [type |-> type,
             data |-> [k \in 1..len8 |-> IF k <= Len(data) THEN data[k] ELSE 0],
             ahead |-> Len(pq)]
  IN [st EXCEPT !.channels[ci].packet_queue = Append(@, pb)]

\* As create_and_enqueue_packet, with push_front in place of push_back.
create_and_enqueue_packet_in_front(st, channel_id, type, data, length) ==
  LET ci == ChanIdx(st, channel_id)
      len8 == length % 256
      pq == st.channels[ci].packet_queue
      pb == [type |-> type,
             data |-> [k \in 1..len8 |-> IF k <= Len(data) THEN data[k] ELSE 0],
             ahead |-> Len(pq)]
      s1 == IF pq = <<>> THEN [st EXCEPT !.send_queue = Append(@, channel_id)] ELSE st
  IN [s1 EXCEPT !.channels[ci].packet_queue = <<pb>> \o @]

\* The length parameter is a uint8_t: the caller's length is cut to 8 bits.
create_and_enqueue_packet(st, channel_id, type, data, length) ==
  LET ci == ChanIdx(st, channel_id)
      len8 == length % 256
      pq == st.channels[ci].packet_queue
      pb == [type |-> type,
             data |-> [k \in 1..len8 |-> IF k <= Len(data) THEN data[k] ELSE 0],
             ahead |-> Len(pq)]
      s1 == IF pq = <<>> THEN [st EXCEPT !.send_queue = Append(@, channel_id)] ELSE st
  IN [s1 EXCEPT !.channels[ci].packet_queue = Append(@, pb)]

\* As remove_channel_if_not_associated_and_empty_pq, without the erase.
remove_channel_never(st, channel_id) == st

\* As remove_channel_if_not_associated_and_empty_pq, without the test of the
\* association.
remove_channel_if_empty_pq(st, channel_id) ==
  LET ci == ChanIdx(st, channel_id)
  IN IF ci # 0 /\ st.channels[ci].packet_queue = <<>>
     THEN [st EXCEPT !.channels = EraseAt(@, ci),
                     !.log.erased = Append(@, [channel_id |-> channel_id,
                                               association |-> st.channels[ci].association,
                                               queued |-> Len(st.channels[ci].packet_queue),
                                               by |-> "remove_channel"])]
     ELSE st

remove_channel_if_not_associated_and_empty_pq(st, channel_id) ==
  LET ci == ChanIdx(st, channel_id)
  IN IF ci # 0 /\ st.channels[ci].association = Nullptr
                /\ st.channels[ci].packet_queue = <<>>
     THEN [st EXCEPT !.channels = EraseAt(@, ci),
                     !.log.erased = Append(@, [channel_id |-> channel_id,
                                               association |-> st.channels[ci].association,
                                               queued |-> Len(st.channels[ci].packet_queue),
                                               by |-> "remove_channel"])]
     ELSE st

(***************************************************************************)
(* Messages from a client.  m is the received message: the header fields   *)
(* type, stream_id and length, the payload (header.length bytes), and oob,  *)
(* the value a read of payload[0] gives when the payload is empty.         *)
(***************************************************************************)
\* As handle_msg_register_req, without the search for the name.
handle_msg_register_req_unchecked(st, cc, m) ==
  create_and_send_msg([st EXCEPT !.services = Append(@, [name |-> m.payload, cc |-> cc])],
                      cc, MSG_REGISTER_RES, 0, <<MSG_SUCCESS>>, 0)

handle_msg_register_req(st, cc, m) ==
  LET service_name == m.payload
      found == \E k \in 1..Len(st.services) : st.services[k].name = service_name
      s1 == IF found THEN st
            ELSE [st EXCEPT !.services = Append(@, [name |-> service_name, cc |-> cc])]
      result == IF found THEN MSG_FAIL ELSE MSG_SUCCESS
  IN create_and_send_msg(s1, cc, MSG_REGISTER_RES, 0, <<result>>, 0)

handle_msg_deregister_req(st, cc, m) ==
  LET service_name == m.payload
      hit(k) == st.services[k].name = service_name /\ st.services[k].cc = cc
      found == \E k \in 1..Len(st.services) : hit(k)
      first == CHOOSE k \in 1..Len(st.services) :
                 hit(k) /\ \A j \in 1..(k - 1) : ~hit(j)
      s1 == IF found THEN [st EXCEPT !.services = EraseAt(@, first)] ELSE st
      result == IF found THEN MSG_SUCCESS ELSE MSG_FAIL
  IN create_and_send_msg(s1, cc, MSG_DEREGISTER_RES, 0, <<result>>, 0)

\* The channel id found, or Nullptr.
get_associated_channel_by_stream_id(st, cc, stream_id) ==
  LET ass == st.connections[ConnIdx(st, cc)].associations
      hit(k) == st.channels[ChanIdx(st, ass[k])].stream_id = stream_id
  IN IF \E k \in 1..Len(ass) : hit(k)
     THEN ass[CHOOSE k \in 1..Len(ass) : hit(k) /\ \A j \in 1..(k - 1) : ~hit(j)]
     ELSE Nullptr

handle_msg_connect(st, cc, m) == st

handle_msg_connect_response(st, cc, m) ==
  LET ch == get_associated_channel_by_stream_id(st, cc, m.stream_id)
      status == IF m.payload = <<>> THEN m.oob ELSE m.payload[1]
      s1 == create_and_enqueue_packet(st, ch, PKT_CONNECT_RESPONSE, m.payload,
                                      Len(m.payload))
  IN IF ch = Nullptr THEN st
     ELSE IF status # CONNECT_OK THEN remove_association(s1, ch)
     ELSE s1

handle_msg_data(st, cc, m) ==
  LET ch == get_associated_channel_by_stream_id(st, cc, m.stream_id)
  IN IF ch = Nullptr THEN st
     ELSE create_and_enqueue_packet(st, ch, PKT_DATA, m.payload, m.length)

\* As handle_msg_eos, without the dissociation after the EOS of both sides.
handle_msg_eos_stays_associated(st, cc, m) ==
  LET ch == get_associated_channel_by_stream_id(st, cc, m.stream_id)
      ci == ChanIdx(st, ch)
      s1 == [st EXCEPT !.channels[ci].got_eos_from_client = TRUE]
  IN IF ch = Nullptr \/ st.channels[ci].got_eos_from_client THEN st
     ELSE create_and_enqueue_packet(s1, ch, PKT_EOS, <<>>, 0)

handle_msg_eos(st, cc, m) ==
  LET ch == get_associated_channel_by_stream_id(st, cc, m.stream_id)
      ci == ChanIdx(st, ch)
      s1 == [st EXCEPT !.channels[ci].got_eos_from_client = TRUE]
      s2 == create_and_enqueue_packet(s1, ch, PKT_EOS, <<>>, 0)
  IN IF ch = Nullptr \/ st.channels[ci].got_eos_from_client THEN st
     ELSE IF s2.channels[ci].got_eos_from_ami THEN remove_association(s2, ch)
     ELSE s2

\* As handle_msg_reset, without clear_packet_queue.
handle_msg_reset_keeps_queue(st, cc, m) ==
  LET ch == get_associated_channel_by_stream_id(st, cc, m.stream_id)
  IN IF ch = Nullptr THEN st
     ELSE create_and_enqueue_packet(remove_association(st, ch), ch, PKT_RESET, <<>>, 0)

handle_msg_reset(st, cc, m) ==
  LET ch == get_associated_channel_by_stream_id(st, cc, m.stream_id)
  IN IF ch = Nullptr THEN st
     ELSE create_and_enqueue_packet(
            clear_packet_queue(remove_association(st, ch), ch),
            ch, PKT_RESET, <<>>, 0)

handle_received_message(st, cc, m) ==
  CASE m.type = MSG_REGISTER_REQ -> handle_msg_register_req(st, cc, m)
    [] m.type = MSG_DEREGISTER_REQ -> handle_msg_deregister_req(st, cc, m)
    [] m.type = MSG_CONNECT -> handle_msg_connect(st, cc, m)
    [] m.type = MSG_CONNECT_RESPONSE -> handle_msg_connect_response(st, cc, m)
    [] m.type = MSG_DATA -> handle_msg_data(st, cc, m)
    [] m.type = MSG_EOS -> handle_msg_eos(st, cc, m)
    [] m.type = MSG_RESET -> handle_msg_reset(st, cc, m)
    [] OTHER -> st

(***************************************************************************)
(* close_and_remove_connection.  The log keeps what the function left      *)
(* behind: the channels cc had, and the channels and services afterwards.  *)
(***************************************************************************)
RECURSIVE ResetAssociations(_, _)
\* The loop over cc->associations: each channel is reset and dissociated.
ResetAssociations(st, i) ==
  IF st.connections[i].associations = <<>> THEN st
  ELSE LET ch == Head(st.connections[i].associations)
           ci == ChanIdx(st, ch)
           s1 == create_and_enqueue_packet(clear_packet_queue(st, ch), ch,
                                           PKT_RESET, <<>>, 0)
           s2 == [s1 EXCEPT !.channels[ci].association = Nullptr,
                            !.channels[ci].stream_id = 0,
                            !.channels[ci].ex = st.connections[i].id,
                            !.connections[i].associations = Tail(@)]
       IN ResetAssociations(s2, i)

\* As close_and_remove_connection, with the services of cc left in the list.
close_and_remove_connection_keeps_services(st, cc) ==
  LET i == ConnIdx(st, cc)
  IN The({[s1 EXCEPT !.connections = EraseAt(@, i),
                     !.log.closes =
                        Append(@, [cc |-> cc, had |-> st.connections[i].associations,
                                   channels |-> s1.channels,
                                   services |-> s1.services,
                                   send_queue |-> s1.send_queue])] :
          s1 \in {ResetAssociations(st, i)}})

close_and_remove_connection(st, cc) ==
  LET i == ConnIdx(st, cc)
      kept == SelectSeq(st.services, LAMBDA srv : srv.cc # cc)
  IN The({[s1 EXCEPT !.connections = EraseAt(@, i),
                     !.log.closes =
                        Append(@, [cc |-> cc, had |-> st.connections[i].associations,
                                   channels |-> s1.channels,
                                   services |-> s1.services,
                                   send_queue |-> s1.send_queue])] :
          s1 \in {ResetAssociations([st EXCEPT !.services = kept], i)}})

(***************************************************************************)
(* Packets from the peer.                                                  *)
(***************************************************************************)
\* As NewConnection, with next_stream_id starting at 2.
NewConnection_even_stream_ids(id) ==
  [id |-> id, next_stream_id |-> 2, message_queue |-> <<>>,
   associations |-> <<>>, made |-> 0]

\* A connection as handle_server_socket_ready and the on-demand start make it.
\* made counts the associations made on the connection so far.
NewConnection(id) ==
  [id |-> id, next_stream_id |-> 1, message_queue |-> <<>>,
   associations |-> <<>>, made |-> 0]

\* The identity (descriptor) a new connection gets: the lowest one free.
FreeIds(st) == {c \in Clients : ConnIdx(st, c) = 0}
LowestFreeId(st) == CHOOSE c \in FreeIds(st) : \A d \in FreeIds(st) : c <= d

\* As Associate, without cc->next_stream_id += 2.
Associate_same_stream_id(st, channel_id, cc, data) ==
  LET ci == ChanIdx(st, channel_id)
      i == ConnIdx(st, cc)
      sid == st.connections[i].next_stream_id
      s1 == [st EXCEPT !.channels[ci].association = cc,
                       !.channels[ci].stream_id = sid,
                       !.connections[i].associations = Append(@, channel_id),
                       !.connections[i].made = @ + 1]
  IN create_and_send_msg(s1, cc, MSG_CONNECT, sid, data, channel_id)

\* ch.association = cc; ch.stream_id = cc->next_stream_id; ...; MSG_CONNECT.
Associate(st, channel_id, cc, data) ==
  LET ci == ChanIdx(st, channel_id)
      i == ConnIdx(st, cc)
      sid == st.connections[i].next_stream_id
      s1 == [st EXCEPT !.channels[ci].association = cc,
                       !.channels[ci].stream_id = sid,
                       !.connections[i].next_stream_id = @ + 2,
                       !.connections[i].associations = Append(@, channel_id),
                       !.connections[i].made = @ + 1]
  IN create_and_send_msg(s1, cc, MSG_CONNECT, sid, data, channel_id)

handle_pkt_connect(st, channel_id, data) ==
  LET ch == [channel_id |-> channel_id, association |-> Nullptr, stream_id |-> 0,
             got_eos_from_ami |-> FALSE, got_eos_from_client |-> FALSE,
             packet_queue |-> <<>>, ex |-> Nullptr]
      s1 == [st EXCEPT !.channels = Append(@, ch)]
      service_name == data
      registered == \E k \in 1..Len(st.services) : st.services[k].name = service_name
      srv == st.services[CHOOSE k \in 1..Len(st.services) :
                           /\ st.services[k].name = service_name
                           /\ \A j \in 1..(k - 1) : st.services[j].name # service_name]
      on_demand == \E k \in 1..Len(on_demand_services) :
                      on_demand_services[k] = service_name
      id == LowestFreeId(st)
      s2 == [s1 EXCEPT !.connections = Append(@, NewConnection(id)),
                       !.services = Append(@, [name |-> service_name, cc |-> id])]
  IN IF ChanIdx(st, channel_id) # 0 THEN [st EXCEPT !.exited = TRUE]
     ELSE IF registered THEN Associate(s1, channel_id, srv.cc, data)
     ELSE IF on_demand
       THEN IF FreeIds(st) = {} THEN [st EXCEPT !.overflow = TRUE]
            ELSE Associate(s2, channel_id, id, data)
     ELSE create_and_enqueue_packet(s1, channel_id, PKT_CONNECT_RESPONSE,
                                    <<CONNECT_UNKNOWN_SERVICE>>, 1)

\* As handle_pkt_data, without the test of got_eos_from_ami.
handle_pkt_data_after_eos(st, channel_id, data) ==
  LET ci == ChanIdx(st, channel_id)
      ch == st.channels[ci]
  IN IF ci # 0 /\ ch.association # Nullptr
     THEN create_and_send_msg(st, ch.association, MSG_DATA, ch.stream_id, data,
                              channel_id)
     ELSE st

handle_pkt_data(st, channel_id, data) ==
  LET ci == ChanIdx(st, channel_id)
      ch == st.channels[ci]
  IN IF ci # 0 /\ ch.association # Nullptr /\ ~ch.got_eos_from_ami
     THEN create_and_send_msg(st, ch.association, MSG_DATA, ch.stream_id, data,
                              channel_id)
     ELSE st

handle_pkt_eos(st, channel_id) ==
  LET ci == ChanIdx(st, channel_id)
      ch == st.channels[ci]
      i == ConnIdx(st, ch.association)
      s1 == [st EXCEPT !.channels[ci].got_eos_from_ami = TRUE]
      s2 == create_and_send_msg(s1, ch.association, MSG_EOS, ch.stream_id, <<>>,
                                channel_id)
  IN IF ci # 0 /\ ch.association # Nullptr /\ ~ch.got_eos_from_ami
     THEN IF s2.exited THEN s2
          ELSE IF ch.got_eos_from_client THEN remove_association(s2, channel_id)
          ELSE s2
     ELSE st

\* As handle_pkt_reset, without clear_packet_queue.
handle_pkt_reset_keeps_queue(st, channel_id) ==
  LET ci == ChanIdx(st, channel_id)
      ch == st.channels[ci]
      s2 == create_and_send_msg(st, ch.association, MSG_RESET, ch.stream_id, <<>>,
                                channel_id)
  IN IF ci = 0 THEN st
     ELSE IF ch.association = Nullptr THEN st
     ELSE IF s2.exited THEN s2
     ELSE remove_association(s2, channel_id)

handle_pkt_reset(st, channel_id) ==
  LET ci == ChanIdx(st, channel_id)
      s1 == clear_packet_queue(st, channel_id)
      ch == s1.channels[ci]
      s2 == create_and_send_msg(s1, ch.association, MSG_RESET, ch.stream_id, <<>>,
                                channel_id)
  IN IF ci = 0 THEN st
     ELSE IF ch.association = Nullptr THEN s1
     ELSE IF s2.exited THEN s2
     ELSE remove_association(s2, channel_id)

\* As handle_received_pkt, without the call of
\* remove_channel_if_not_associated_and_empty_pq after the packet's handler.
handle_received_pkt_without_remove(st, ptype, channel_id, data) ==
  CASE ptype = PKT_CONNECT -> handle_pkt_connect(st, channel_id, data)
    [] ptype = PKT_DATA -> handle_pkt_data(st, channel_id, data)
    [] ptype = PKT_EOS -> handle_pkt_eos(st, channel_id)
    [] ptype = PKT_RESET -> handle_pkt_reset(st, channel_id)
    [] OTHER -> st

handle_received_pkt(st, ptype, channel_id, data) ==
  The({IF s1.exited THEN s1
       ELSE remove_channel_if_not_associated_and_empty_pq(s1, channel_id) :
       s1 \in {CASE ptype = PKT_CONNECT -> handle_pkt_connect(st, channel_id, data)
                  [] ptype = PKT_DATA -> handle_pkt_data(st, channel_id, data)
                  [] ptype = PKT_EOS -> handle_pkt_eos(st, channel_id)
                  [] ptype = PKT_RESET -> handle_pkt_reset(st, channel_id)
                  [] OTHER -> st}})

\* Bytes a packet takes in a ring: the 3-byte header and the payload.
PacketBytes(p) == 3 + Len(p.data)

RECURSIVE SumBytes(_)
SumBytes(pkts) == IF pkts = <<>> THEN 0 ELSE PacketBytes(Head(pkts)) + SumBytes(Tail(pkts))

RECURSIVE DecodeLoop(_, _)
\* The walk over the drained bytes, one packet after the other.
DecodeLoop(st, pkts) ==
  IF pkts = <<>> \/ st.exited THEN st
  ELSE DecodeLoop(handle_received_pkt(st, Head(pkts).type, Head(pkts).channel_id,
                                      Head(pkts).data),
                  Tail(pkts))

\* st.a2r holds the packets between A2R_HEAD and A2R_TAIL; st.ret is the result.
receive_from_a2r(st) ==
  LET head == st.channel_status[A2R_HEAD_OFFSET + 1]
      tail == st.channel_status[A2R_TAIL_OFFSET + 1]
      len == (tail - head) % 256
  IN IF len = 0 THEN [st EXCEPT !.ret = FALSE]
     ELSE The({IF s1.exited THEN s1
               ELSE [s1 EXCEPT !.channel_status[A2R_HEAD_OFFSET + 1] = tail,
                               !.channel_status_updated = BitOr(@, A_EVENT_A2R_HEAD),
                               !.a2r = <<>>,
                               !.ret = TRUE] :
               s1 \in {DecodeLoop(st, st.a2r)}})

(***************************************************************************)
(* flush_send_queue.                                                       *)
(***************************************************************************)
\* As R2ALeft, with the whole ring taken as free.
R2ALeft_whole_ring(st) == 255

\* Room in the R2A ring as the daemon computes it from its channel_status.
R2ALeft(st) ==
  LET tail == st.channel_status[R2A_TAIL_OFFSET + 1]
      head == st.channel_status[R2A_HEAD_OFFSET + 1]
      len == (tail - head) % 256
  IN 255 - len

\* packet_queue.front(); of an empty list it is an indeterminate packet.
FrontPacket(ch) ==
  IF ch.packet_queue = <<>> THEN [type |-> 0, data |-> <<>>, ahead |-> 0]
  ELSE Head(ch.packet_queue)

\* packet_queue.pop_front(); the packets left have one packet less ahead.
PopFront(pq) ==
  IF pq = <<>> THEN pq
  ELSE [k \in 1..(Len(pq) - 1) |->
          [pq[k + 1] EXCEPT !.ahead = IF @ > 0 THEN @ - 1 ELSE 0]]

\* As FlushLoop, with a channel that has more packets put back at the front of
\* send_queue.
RECURSIVE FlushLoop_front_again(_, _, _)
\* The while loop: st.pos is the number of bytes put into send_buf.
FlushLoop_front_again(st, left, pos) ==
  IF st.send_queue = <<>> THEN [st EXCEPT !.pos = pos]
  ELSE LET ch == Head(st.send_queue)
           ci == ChanIdx(st, ch)
           pb == FrontPacket(st.channels[ci])
           plen == 3 + Len(pb.data)
           rest == PopFront(st.channels[ci].packet_queue)
           s1 == [st EXCEPT !.channels[ci].packet_queue = rest,
                            !.send_queue = Tail(@),
                            !.r2a_packets = @ + 1,
                            !.log.send_buf =
                               @ \o <<Len(pb.data) % 256, pb.type, ch>> \o pb.data,
                            !.log.written =
                               Append(@, [channel_id |-> ch, type |-> pb.type,
                                          length |-> Len(pb.data),
                                          data |-> pb.data,
                                          ahead |-> pb.ahead])]
           s2 == IF rest # <<>> THEN [s1 EXCEPT !.send_queue = <<ch>> \o @]
                 ELSE remove_channel_if_not_associated_and_empty_pq(s1, ch)
       IN IF left < plen THEN [st EXCEPT !.pos = pos]
          ELSE FlushLoop_front_again(s2, left - plen, pos + plen)

RECURSIVE FlushLoop(_, _, _)
\* The while loop: st.pos is the number of bytes put into send_buf.
FlushLoop(st, left, pos) ==
  IF st.send_queue = <<>> THEN [st EXCEPT !.pos = pos]
  ELSE LET ch == Head(st.send_queue)
           ci == ChanIdx(st, ch)
           pb == FrontPacket(st.channels[ci])
           plen == 3 + Len(pb.data)
           rest == PopFront(st.channels[ci].packet_queue)
           s1 == [st EXCEPT !.channels[ci].packet_queue = rest,
                            !.send_queue = Tail(@),
                            !.r2a_packets = @ + 1,
                            !.log.send_buf =
                               @ \o <<Len(pb.data) % 256, pb.type, ch>> \o pb.data,
                            !.log.written =
                               Append(@, [channel_id |-> ch, type |-> pb.type,
                                          length |-> Len(pb.data),
                                          data |-> pb.data,
                                          ahead |-> pb.ahead])]
           s2 == IF rest # <<>> THEN [s1 EXCEPT !.send_queue = Append(@, ch)]
                 ELSE remove_channel_if_not_associated_and_empty_pq(s1, ch)
       IN IF left < plen THEN [st EXCEPT !.pos = pos]
          ELSE FlushLoop(s2, left - plen, pos + plen)

\* As spi_write_mem, with the address one byte too far.
spi_write_mem_one_off(st, address, buf) ==
  [st EXCEPT !.log.bus = Append(@, [address |-> (address + 1) % 1048576, data |-> buf])]

\* One write on the bus: the log keeps the 20 bits of the address and the bytes.
spi_write_mem(st, address, buf) ==
  [st EXCEPT !.log.bus = Append(@, [address |-> address % 1048576, data |-> buf])]

\* As SplitWrite, with all bytes in one write at R2A_TAIL.
SplitWrite_unsplit(st, tail) ==
  spi_write_mem(st, st.base_address + 260 + tail, st.log.send_buf)

\* The st.pos bytes of send_buf go to the R2A ring at tail, in two writes when
\* they pass the end of the ring.
SplitWrite(st, tail) ==
  LET to_write == st.pos
      at_end == 256 - tail
  IN IF at_end < to_write
     THEN spi_write_mem(spi_write_mem(st, st.base_address + 260 + tail,
                                      SubSeq(st.log.send_buf, 1, at_end)),
                        st.base_address + 260 + 0,
                        SubSeq(st.log.send_buf, at_end + 1, to_write))
     ELSE spi_write_mem(st, st.base_address + 260 + tail, st.log.send_buf)

\* The bytes go into the ring at R2A_TAIL; r2a_unconsumed counts what the ring holds.
flush_send_queue(st) ==
  LET tail == st.channel_status[R2A_TAIL_OFFSET + 1]
  IN The({IF s1.pos = 0 THEN [s1 EXCEPT !.ret = FALSE]
          ELSE [SplitWrite(s1, tail)
                  EXCEPT !.channel_status[R2A_TAIL_OFFSET + 1] =
                           IF 256 - tail < s1.pos THEN (0 + (s1.pos - (256 - tail))) % 256
                           ELSE (tail + s1.pos) % 256,
                         !.channel_status_updated = BitOr(@, A_EVENT_R2A_TAIL),
                         !.r2a_unconsumed = @ + s1.pos,
                         !.ret = TRUE] :
          s1 \in {FlushLoop(st, R2ALeft(st), 0)}})

(***************************************************************************)
(* The communication area.                                                 *)
(***************************************************************************)
\* As read_base_address, with the first read taken as it is when its low bit is 1.
read_base_address_single_read(st, ba1, ba2) ==
  IF ba1 % 2 = 1
  THEN [st EXCEPT !.have_base_address = TRUE, !.base_address = ba1 - 1]
  ELSE [st EXCEPT !.have_base_address = FALSE]

\* ba1 and ba2 are the two 20-bit values read from CMEM 0..4.
read_base_address(st, ba1, ba2) ==
  IF ba1 % 2 = 1 /\ ba1 = ba2
  THEN [st EXCEPT !.have_base_address = TRUE, !.base_address = ba1 - 1]
  ELSE [st EXCEPT !.have_base_address = FALSE]

read_channel_status(st) ==
  [st EXCEPT !.channel_status = st.sram_status, !.channel_status_updated = 0,
             !.r2a_stale = 0]

\* The four bits spi_write_cmem puts on the bus.
Nibble(data) == data % 16

\* As write_channel_status, with one byte, R2A_TAIL, written to the SRAM.
write_channel_status_tail_only(st) ==
  IF st.channel_status_updated # 0
  THEN [st EXCEPT !.sram_status[R2A_TAIL_OFFSET + 1] = st.channel_status[R2A_TAIL_OFFSET + 1],
                  !.log.posted = Append(@, Nibble(st.channel_status_updated)),
                  !.channel_status_updated = 0]
  ELSE st

\* R2A_TAIL and A2R_HEAD go to the SRAM, then the mask to A_EVENTS (log.posted).
write_channel_status(st) ==
  IF st.channel_status_updated # 0
  THEN [st EXCEPT !.sram_status[R2A_TAIL_OFFSET + 1] = st.channel_status[R2A_TAIL_OFFSET + 1],
                  !.sram_status[A2R_HEAD_OFFSET + 1] = st.channel_status[A2R_HEAD_OFFSET + 1],
                  !.log.posted = Append(@, Nibble(st.channel_status_updated)),
                  !.channel_status_updated = 0]
  ELSE st

RECURSIVE CloseLoop_without_reset(_)
\* As CloseLoop, without the MSG_RESET to the client of an associated channel.
CloseLoop_without_reset(st) ==
  IF st.channels = <<>> \/ st.exited THEN st
  ELSE LET ch == st.channels[1]
       IN The({CloseLoop_without_reset(
                 [s1 EXCEPT !.channels = Tail(@),
                            !.log.erased =
                               Append(@, [channel_id |-> ch.channel_id,
                                          association |-> s1.channels[1].association,
                                          queued |-> Len(s1.channels[1].packet_queue),
                                          by |-> "close_all"])]) :
               s1 \in {IF ch.association # Nullptr
                        THEN remove_association(st, ch.channel_id)
                        ELSE st}})

RECURSIVE CloseLoop(_)
\* The loop of close_all_logical_channels over channels.
CloseLoop(st) ==
  IF st.channels = <<>> \/ st.exited THEN st
  ELSE LET ch == st.channels[1]
       IN The({IF s1.exited THEN s1
               ELSE CloseLoop(
                      [s1 EXCEPT !.channels = Tail(@),
                                 !.log.erased =
                                    Append(@, [channel_id |-> ch.channel_id,
                                               association |-> s1.channels[1].association,
                                               queued |-> Len(s1.channels[1].packet_queue),
                                               by |-> "close_all"])]) :
               s1 \in {IF ch.association # Nullptr
                        THEN The({IF s.exited THEN s
                                  ELSE remove_association(s, ch.channel_id) :
                                  s \in {create_and_send_msg(st, ch.association, MSG_RESET,
                                                             ch.stream_id, <<>>,
                                                             ch.channel_id)}})
                        ELSE st}})

\* The log keeps the channels there were and what the function left behind.
close_all_logical_channels(st) ==
  The({IF s1.exited THEN s1
       ELSE [s1 EXCEPT !.log.teardown =
               Append(@, [had |-> [k \in 1..Len(st.channels) |->
                                     [channel_id |-> st.channels[k].channel_id,
                                      association |-> st.channels[k].association,
                                      stream_id |-> st.channels[k].stream_id]],
                          msgs |-> s1.log.msgs,
                          channels |-> s1.channels,
                          send_queue |-> s1.send_queue,
                          associations |-> [k \in 1..Len(s1.connections) |->
                                              s1.connections[k].associations],
                          connections |-> [k \in 1..Len(s1.connections) |->
                                             s1.connections[k].id],
                          services |-> s1.services])] :
       s1 \in {CloseLoop([st EXCEPT !.send_queue = <<>>])}})

\* As handle_a314_irq, without close_all_logical_channels before the base address
\* is read again.
handle_a314_irq_keeps_channels(st, events, ba1, ba2) ==
  IF events = 0 THEN st
  ELSE The({
    IF s1.exited \/ ~s1.have_base_address THEN s1
    ELSE The({
      IF any_rcvd.exited THEN any_rcvd
      ELSE The({IF any_rcvd.ret \/ any_sent.ret THEN write_channel_status(any_sent)
                ELSE any_sent :
                any_sent \in {flush_send_queue(any_rcvd)}}) :
      any_rcvd \in {receive_from_a2r(read_channel_status(s1))}}) :
    s1 \in {IF BitSet(events, R_EVENT_BASE_ADDRESS) \/ ~st.have_base_address
             THEN read_base_address(st, ba1, ba2)
             ELSE st}})

\* As handle_a314_irq, without the return when R_EVENTS reads 0.
handle_a314_irq_without_events_test(st, events, ba1, ba2) ==
  The({
    IF s1.exited \/ ~s1.have_base_address THEN s1
    ELSE The({
      IF any_rcvd.exited THEN any_rcvd
      ELSE The({IF any_rcvd.ret \/ any_sent.ret THEN write_channel_status(any_sent)
                ELSE any_sent :
                any_sent \in {flush_send_queue(any_rcvd)}}) :
      any_rcvd \in {receive_from_a2r(read_channel_status(s1))}}) :
    s1 \in {IF BitSet(events, R_EVENT_BASE_ADDRESS) \/ ~st.have_base_address
             THEN The({IF s.exited THEN s ELSE read_base_address(s, ba1, ba2) :
                       s \in {close_all_logical_channels(st)}})
             ELSE st}})

\* events is the value of R_EVENTS that spi_ack_irq reads.
handle_a314_irq(st, events, ba1, ba2) ==
  IF events = 0 THEN st
  ELSE The({
    IF s1.exited \/ ~s1.have_base_address THEN s1
    ELSE The({
      IF any_rcvd.exited THEN any_rcvd
      ELSE The({IF any_rcvd.ret \/ any_sent.ret THEN write_channel_status(any_sent)
                ELSE any_sent :
                any_sent \in {flush_send_queue(any_rcvd)}}) :
      any_rcvd \in {receive_from_a2r(read_channel_status(s1))}}) :
    s1 \in {IF BitSet(events, R_EVENT_BASE_ADDRESS) \/ ~st.have_base_address
             THEN The({IF s.exited THEN s ELSE read_base_address(s, ba1, ba2) :
                       s \in {close_all_logical_channels(st)}})
             ELSE st}})

(***************************************************************************)
(* Events of a client socket.  ev says which of EPOLLERR, EPOLLIN and      *)
(* EPOLLOUT are set, which complete messages the reads deliver and how the  *)
(* reads end: "eagain", "eof" (read returns 0) or "error".                 *)
(***************************************************************************)
RECURSIVE ReadLoop(_, _, _)
ReadLoop(st, cc, msgs) ==
  IF msgs = <<>> \/ st.exited THEN st
  ELSE ReadLoop(handle_received_message(st, cc, Head(msgs)), cc, Tail(msgs))

RECURSIVE DrainLoop(_, _)
\* The EPOLLOUT loop over message_queue; st.closed tells that cc was closed.
DrainLoop(st, cc) ==
  LET i == ConnIdx(st, cc)
  IN IF st.connections[i].message_queue = <<>> \/ st.wr = "eagain" THEN st
     ELSE IF st.wr = "reset"
       THEN [close_and_remove_connection(st, cc) EXCEPT !.closed = TRUE]
     ELSE IF st.wr = "error" THEN [st EXCEPT !.exited = TRUE]
     ELSE DrainLoop([st EXCEPT !.connections[i].message_queue = Tail(@)], cc)

handle_client_connection_event(st, cc, ev) ==
  IF ev.err THEN close_and_remove_connection(st, cc)
  ELSE The({IF s2.exited \/ s2.closed \/ ~ev.out THEN s2 ELSE DrainLoop(s2, cc) :
            s2 \in {IF ~ev.inp THEN st
                     ELSE The({IF s1.exited THEN s1
                               ELSE IF ev.end = "error" THEN [s1 EXCEPT !.exited = TRUE]
                               ELSE IF ev.end = "eof"
                                 THEN [close_and_remove_connection(s1, cc)
                                         EXCEPT !.closed = TRUE]
                               ELSE s1 :
                               s1 \in {ReadLoop(st, cc, ev.msgs)}})}})

\* As CloseAllConnections, with an if in place of the while.
CloseAllConnections_first_only(st) ==
  IF st.connections = <<>> THEN st
  ELSE close_and_remove_connection(st, st.connections[1].id)

RECURSIVE CloseAllConnections(_)
\* while (!connections.empty()) close_and_remove_connection(&connections.front());
CloseAllConnections(st) ==
  IF st.connections = <<>> THEN st
  ELSE CloseAllConnections(close_and_remove_connection(st, st.connections[1].id))

\* if (flush_send_queue()) write_channel_status();
FlushAndPost(st) ==
  The({IF s1.ret THEN write_channel_status(s1) ELSE s1 : s1 \in {flush_send_queue(st)}})

(***************************************************************************)
(* The state record of a handler, and its installation as the next state.  *)
(***************************************************************************)
\* wr: what write() on a client socket does; a2r: the packets the peer has put
\* into the A2R ring; restarted: the peer has restarted and set up an empty
\* communication area.
State(wr, a2r, restarted) ==
  [connections |-> connections, services |-> services, channels |-> channels,
   send_queue |-> send_queue, have_base_address |-> have_base_address,
   base_address |-> base_address, channel_status |-> channel_status,
   channel_status_updated |-> channel_status_updated,
   sram_status |->
     [(IF restarted THEN <<0, 0, 0, 0>> ELSE sram_status)
        EXCEPT ![A2R_TAIL_OFFSET + 1] = (@ + SumBytes(a2r)) % 256],
   r2a_unconsumed |-> IF restarted THEN 0 ELSE r2a_unconsumed,
   r2a_packets |-> IF restarted THEN 0 ELSE r2a_packets,
   r2a_stale |-> IF restarted THEN 0 ELSE r2a_stale,
   log |-> EmptyLog,
   wr |-> wr, a2r |-> a2r, ret |-> FALSE, pos |-> 0, closed |-> FALSE,
   exited |-> FALSE, overflow |-> FALSE]

\* The model follows a handler only while its result stays within the bounds.
Bounded(st) ==
  /\ ~st.overflow
  /\ \A i \in 1..Len(st.connections) :
       /\ st.connections[i].next_stream_id <= MaxStreamId
       /\ Len(st.connections[i].message_queue) <= MaxMQ
  /\ \A i \in 1..Len(st.channels) : Len(st.channels[i].packet_queue) <= MaxPQ
  /\ st.r2a_packets + st.r2a_stale <= MaxRing

\* The process has ended (p is "exit" after exit(-1), "done" after main_loop has
\* returned): its memory is gone.
Ended(p) ==
  /\ pc' = p
  /\ connections' = <<>>
  /\ services' = <<>>
  /\ channels' = <<>>
  /\ send_queue' = <<>>
  /\ have_base_address' = FALSE
  /\ base_address' = 0
  /\ channel_status' = <<0, 0, 0, 0>>
  /\ channel_status_updated' = 0
  /\ first_gpio_event' = TRUE
  /\ shutting_down' = FALSE
  /\ server_socket' = FALSE
  /\ sram_status' = <<0, 0, 0, 0>>
  /\ r2a_unconsumed' = 0
  /\ r2a_packets' = 0
  /\ r2a_stale' = 0
  /\ world' = world
  /\ codec' = codec
  /\ timeout' = MaxWait

\* The code decides on differences of ring offsets only (lines 1035 and 1072), so
\* the offsets are kept relative to where the next byte of each ring goes: A2R
\* offsets to the A2R_HEAD in SRAM, R2A offsets to the R2A_TAIL in SRAM.
Relative(status, sram) ==
  LET a2r == sram[A2R_HEAD_OFFSET + 1]
      r2a == sram[R2A_TAIL_OFFSET + 1]
  IN <<(status[1] + 256 - a2r) % 256, (status[2] + 256 - r2a) % 256,
       (status[3] + 256 - r2a) % 256, (status[4] + 256 - a2r) % 256>>

\* The lists as sequences.
AsSeq(s) == IF Len(s) = 0 THEN <<>> ELSE s

Install(st) ==
  /\ Bounded(st)
  /\ connections' = AsSeq(st.connections)
  /\ services' = AsSeq(st.services)
  /\ channels' = AsSeq(st.channels)
  /\ send_queue' = AsSeq(st.send_queue)
  /\ have_base_address' = st.have_base_address
  /\ base_address' = st.base_address
  /\ channel_status' = Relative(st.channel_status, st.sram_status)
  /\ channel_status_updated' = st.channel_status_updated
  /\ sram_status' = Relative(st.sram_status, st.sram_status)
  /\ r2a_unconsumed' = st.r2a_unconsumed
  /\ r2a_packets' = st.r2a_packets
  /\ r2a_stale' = st.r2a_stale
  /\ world' = world
  /\ codec' = codec
  /\ timeout' = MaxWait

(***************************************************************************)
(* Inputs of the handlers.                                                 *)
(***************************************************************************)
PeerPackets ==
  {[type |-> PKT_CONNECT, channel_id |-> c, data |-> n] :
      c \in ChannelIds, n \in ConnectNames}
  \cup {[type |-> PKT_DATA, channel_id |-> c, data |-> d] :
      c \in ChannelIds, d \in PktDataPayloads}
  \cup {[type |-> t, channel_id |-> c, data |-> <<>>] :
      t \in {PKT_EOS, PKT_RESET}, c \in ChannelIds}

PacketBatches == UNION {[1..n -> PeerPackets] : n \in 0..MaxIrqPkts}

\* The value the loop over CMEM 0..4 puts together from the five reads, each
\* shifted by four bits more: nibbles[i + 1] is what spi_read_cmem(i) returns.
CmemValue(nibbles) ==
  nibbles[1] + 16 * nibbles[2] + 256 * nibbles[3] + 4096 * nibbles[4]
  + 65536 * nibbles[5]

\* What the two reads of the base address in CMEM give: a valid address read
\* twice, two reads that differ, an address without the valid bit.
BaseReads ==
  {<<CmemValue(<<1, 1, 0, 0, 0>>), CmemValue(<<1, 1, 0, 0, 0>>)>>,
   <<CmemValue(<<1, 1, 0, 0, 0>>), CmemValue(<<0, 1, 0, 0, 0>>)>>,
   <<CmemValue(<<0, 1, 0, 0, 0>>), CmemValue(<<0, 1, 0, 0, 0>>)>>}

\* Stream ids a client names in its messages.
NamedStreamIds == {s \in 1..(MaxStreamId - 2) : s % 2 = 1}

ClientMessages ==
  {[type |-> t, stream_id |-> 0, length |-> Len(n), payload |-> n, oob |-> 0] :
      t \in {MSG_REGISTER_REQ, MSG_DEREGISTER_REQ}, n \in RegisterNames}
  \cup {[type |-> MSG_CONNECT_RESPONSE, stream_id |-> s, length |-> Len(p),
         payload |-> p, oob |-> 0] : s \in NamedStreamIds, p \in ResponsePayloads}
  \cup {[type |-> MSG_CONNECT_RESPONSE, stream_id |-> s, length |-> 0,
         payload |-> <<>>, oob |-> o] : s \in NamedStreamIds, o \in OutOfBounds \ {0}}
  \cup {[type |-> MSG_DATA, stream_id |-> s, length |-> Len(p), payload |-> p,
         oob |-> 0] : s \in NamedStreamIds, p \in DataPayloads}
  \cup {[type |-> t, stream_id |-> s, length |-> 0, payload |-> <<>>, oob |-> 0] :
      t \in {MSG_EOS, MSG_RESET}, s \in NamedStreamIds}
  \cup {[type |-> MSG_CONNECT, stream_id |-> 0, length |-> 0, payload |-> <<>>,
         oob |-> 0]}

\* The events of a client socket: EPOLLERR; EPOLLIN with end of file or a failing
\* read; EPOLLIN with one complete message; EPOLLOUT, alone or with a message.
ClientEvents ==
  {[err |-> TRUE, inp |-> FALSE, out |-> FALSE, msgs |-> <<>>, end |-> "eagain"]}
  \cup {[err |-> FALSE, inp |-> TRUE, out |-> FALSE, msgs |-> <<>>, end |-> e] :
          e \in {"eof", "error"}}
  \cup {[err |-> FALSE, inp |-> TRUE, out |-> o, msgs |-> <<m>>, end |-> "eagain"] :
          o \in BOOLEAN, m \in ClientMessages}
  \cup {[err |-> FALSE, inp |-> FALSE, out |-> TRUE, msgs |-> <<>>, end |-> "eagain"]}

\* In a world with a prompt peer the ring is empty before the daemon handles
\* the next event, and the daemon has seen it empty before the next client event.
PeerDone == world = "ring" \/ r2a_unconsumed = 0
DaemonSeen ==
  world = "ring" \/ channel_status[R2A_HEAD_OFFSET + 1] = channel_status[R2A_TAIL_OFFSET + 1]

\* The handler of ev on connection i may call write().
ClientWrites(i, ev) ==
  \/ ev.out /\ connections[i].message_queue # <<>>
  \/ \E k \in 1..Len(ev.msgs) :
        ev.msgs[k].type \in {MSG_REGISTER_REQ, MSG_DEREGISTER_REQ}

\* The IRQ handler may call write(): there is an associated channel.
IrqWrites(pkts) ==
  \/ \E k \in 1..Len(channels) : channels[k].association # Nullptr
  \/ \E k \in 1..Len(pkts) : pkts[k].type = PKT_CONNECT /\ pkts[k].data # NameX

\* The inputs of handle_a314_irq: the value of R_EVENTS, the two reads of the base
\* address, the packets in the A2R ring, what write() does.  The base address is
\* read only on rediscovery; the peer sets R_EVENT_A2R_TAIL when it has put
\* packets into the ring, and they are there only when the handler gets to read
\* it.  A prompt peer that has emptied the R2A ring interrupts for that first.
IrqInputs ==
  {x \in EventValues \X BaseReads \X PacketBatches \X WriteResults :
     LET rediscover == BitSet(x[1], R_EVENT_BASE_ADDRESS) \/ ~have_base_address
     IN /\ rediscover \/ x[2] = <<17, 17>>
        /\ x[3] # <<>> <=> BitSet(x[1], R_EVENT_A2R_TAIL)
        /\ x[3] # <<>> => x[2] = <<17, 17>>
        /\ x[4] # "ok" => x[1] # 0 /\ IrqWrites(x[3])
        /\ ~DaemonSeen => x[1] = R_EVENT_R2A_HEAD}

\* The inputs of a client event: the position of the connection, the event, what
\* write() does.
ClientInputs ==
  {x \in (1..Len(connections)) \X ClientEvents \X WriteResults :
     /\ x[2].out => connections[x[1]].message_queue # <<>>
     /\ x[3] # "ok" => ClientWrites(x[1], x[2])}

(***************************************************************************)
(* The handlers of main_loop as functions of their inputs.                 *)
(***************************************************************************)
\* handle_a314_irq on what the peer has done before the interrupt.
IrqRun(x) ==
  handle_a314_irq(State(x[4], x[3], BitSet(x[1], R_EVENT_BASE_ADDRESS)),
                  x[1], x[2][1], x[2][2])

\* As ClientRun, without the flush of main_loop after the handler.
ClientRun_without_flush(x) ==
  handle_client_connection_event(State(x[3], <<>>, FALSE), connections[x[1]].id, x[2])

\* handle_client_connection_event, then the flush of main_loop.
ClientRun(x) ==
  The({IF s1.exited THEN s1 ELSE FlushAndPost(s1) :
       s1 \in {handle_client_connection_event(State(x[3], <<>>, FALSE),
                                              connections[x[1]].id, x[2])}})

\* The EINTR branch of main_loop.
SigtermRun == FlushAndPost(CloseAllConnections(State("ok", <<>>, FALSE)))

IrqReady ==
  /\ pc = "start" \/ (pc = "loop" /\ ~first_gpio_event)
  /\ PeerDone
ClientReady == pc = "loop" /\ PeerDone /\ DaemonSeen

\* The handler runs that can come next, within the bounds.
Runs ==
  {st \in (IF IrqReady THEN {IrqRun(x) : x \in IrqInputs} ELSE {})
          \cup (IF ClientReady THEN {ClientRun(x) : x \in ClientInputs}
                                    \cup {SigtermRun}
                ELSE {}) : st.exited \/ Bounded(st)}

(***************************************************************************)
(* The actions: main_loop's entry and its branches, and the peer.          *)
(***************************************************************************)
Init ==
  /\ pc = "start"
  /\ connections = <<>>
  /\ services = <<>>
  /\ channels = <<>>
  /\ send_queue = <<>>
  /\ have_base_address = FALSE
  /\ base_address = 0
  /\ channel_status = <<0, 0, 0, 0>>
  /\ channel_status_updated = 0
  /\ first_gpio_event = TRUE
  /\ shutting_down = FALSE
  /\ server_socket = TRUE
  /\ sram_status = <<0, 0, 0, 0>>
  /\ r2a_unconsumed = 0
  /\ r2a_packets = 0
  /\ r2a_stale = 0
  /\ world \in Worlds
  /\ codec = [stage |-> "off"]
  /\ timeout = MaxWait

\* main_loop calls handle_a314_irq before it enters the loop.
MainLoopEntry ==
  /\ pc = "start"
  /\ \E x \in IrqInputs : \E st \in {IrqRun(x)} :
          IF st.exited THEN Ended("exit")
          ELSE /\ Install(st)
               /\ pc' = "loop"
               /\ UNCHANGED <<first_gpio_event, shutting_down, server_socket>>

FirstGpioEvent ==
  /\ pc = "loop"
  /\ first_gpio_event
  /\ first_gpio_event' = FALSE
  /\ timeout' = MaxWait
  /\ UNCHANGED <<connections, services, channels, send_queue, have_base_address,
                 base_address, channel_status, channel_status_updated, pc,
                 shutting_down, server_socket, sram_status, r2a_unconsumed,
                 r2a_packets, r2a_stale, world, codec>>

GpioEventOn(x) ==
  \E st \in {IrqRun(x)} :
     IF st.exited THEN Ended("exit")
     ELSE IF shutting_down /\ st.channels = <<>> THEN Bounded(st) /\ Ended("done")
     ELSE /\ Install(st)
          /\ UNCHANGED <<pc, first_gpio_event, shutting_down, server_socket>>

GpioEvent ==
  /\ pc = "loop"
  /\ IrqReady
  /\ \E x \in IrqInputs : GpioEventOn(x)

\* The interrupt the peer raises after it has advanced R2A_HEAD: R_EVENTS holds
\* R_EVENT_R2A_HEAD alone.
PeerAck ==
  /\ pc = "loop"
  /\ IrqReady
  /\ \E x \in {y \in IrqInputs : y[1] = R_EVENT_R2A_HEAD /\ y[4] = "ok"} : GpioEventOn(x)

\* handle_server_socket_ready: accept() gives a new connection.
ServerSocketReady ==
  /\ ClientReady
  /\ server_socket
  /\ FreeIds([connections |-> connections]) # {}
  /\ connections' =
       Append(connections, NewConnection(LowestFreeId([connections |-> connections])))
  /\ timeout' = MaxWait
  /\ UNCHANGED <<services, channels, send_queue, have_base_address, base_address,
                 channel_status, channel_status_updated, pc, first_gpio_event,
                 shutting_down, server_socket, sram_status, r2a_unconsumed,
                 r2a_packets, r2a_stale, world, codec>>

ClientEvent ==
  /\ ClientReady
  /\ \E x \in ClientInputs : \E st \in {ClientRun(x)} :
          IF st.exited THEN Ended("exit")
          ELSE /\ Install(st)
               /\ UNCHANGED <<pc, first_gpio_event, shutting_down, server_socket>>

\* epoll_pwait fails with EINTR.
Sigterm ==
  /\ ClientReady
  /\ \E st \in {SigtermRun} :
        IF st.channels = <<>> THEN Bounded(st) /\ Ended("done")
        ELSE /\ Install(st)
             /\ shutting_down' = TRUE
             /\ server_socket' = FALSE
             /\ UNCHANGED <<pc, first_gpio_event>>

\* A part of the 10 s of the shutdown wait passes without an event.  Every return
\* of epoll_pwait is followed by a call with the whole timeout again.
Tick ==
  /\ pc = "loop"
  /\ shutting_down
  /\ timeout > 0
  /\ timeout' = timeout - 1
  /\ UNCHANGED <<connections, services, channels, send_queue, have_base_address,
                 base_address, channel_status, channel_status_updated, pc,
                 first_gpio_event, shutting_down, server_socket, sram_status,
                 r2a_unconsumed, r2a_packets, r2a_stale, world, codec>>

\* epoll_pwait returns 0 after the 10 s of the shutdown wait.
ShutdownTimeout ==
  /\ pc = "loop"
  /\ shutting_down
  /\ timeout = 0
  /\ Ended("done")

\* The peer consumes the bytes of the R2A ring and advances R2A_HEAD in SRAM.
PeerConsume ==
  /\ pc \in {"start", "loop"}
  /\ r2a_unconsumed > 0
  /\ sram_status' = [sram_status EXCEPT ![R2A_HEAD_OFFSET + 1] =
                        (@ + r2a_unconsumed) % 256]
  /\ r2a_unconsumed' = 0
  /\ r2a_packets' = 0
  /\ r2a_stale' = r2a_stale + r2a_packets
  /\ UNCHANGED <<connections, services, channels, send_queue, have_base_address,
                 base_address, channel_status, channel_status_updated, pc,
                 first_gpio_event, shutting_down, server_socket, world, codec,
                 timeout>>

Next ==
  \/ MainLoopEntry
  \/ FirstGpioEvent
  \/ GpioEvent
  \/ ServerSocketReady
  \/ ClientEvent
  \/ Sigterm
  \/ Tick
  \/ ShutdownTimeout
  \/ PeerConsume

Spec == Init /\ [][Next]_vars

\* The peer keeps consuming the R2A ring and raising its interrupt, and the daemon
\* gets to its loop and past the first GPIO event.
SpecLive ==
  /\ Init
  /\ [][Next]_vars
  /\ WF_vars(MainLoopEntry)
  /\ WF_vars(FirstGpioEvent)
  /\ WF_vars(PeerConsume)
  /\ WF_vars(PeerAck)

\* Time passes, and epoll_pwait returns 0 when its timeout has passed without an
\* event.
SpecShutdown ==
  /\ Init
  /\ [][Next]_vars
  /\ WF_vars(Tick)
  /\ WF_vars(ShutdownTimeout)

(***************************************************************************)
(* The ring codec.  The encoder is flush_send_queue with the bytes it puts *)
(* on the bus; the decoder is the read and the walk of receive_from_a2r on *)
(* a ring with the same bytes at the same offsets.  codec holds the inputs *)
(* (R2A_HEAD, R2A_TAIL, the packets enqueued), the bytes of the ring, and  *)
(* what the two functions have produced.                                   *)
(***************************************************************************)
MaxCodecPkts == 3

\* The base address the daemon has read: CMEM holds 17.
CodecBase == 16

\* R2A_TAIL before the flush, and the bytes of the ring the peer has not consumed.
CodecTails == {0, 1, 100, 200, 253, 255}
CodecUsed == {0, 100, 255}
\* Payload lengths, and payloads whose bytes tell length and position.
CodecLengths == {0, 1, 147, 252, 253, 255}
CodecPayload(n) == [k \in 1..n |-> (n + k) % 256]
CodecPackets ==
  {[type |-> PKT_DATA, channel_id |-> 1, data |-> CodecPayload(n)] : n \in CodecLengths}
  \cup {[type |-> PKT_DATA, channel_id |-> 2, data |-> CodecPayload(1)],
        [type |-> PKT_EOS, channel_id |-> 2, data |-> <<>>]}
CodecSequences == UNION {[1..n -> CodecPackets] : n \in 0..MaxCodecPkts}

\* The addresses of the R2A ring, and a ring the daemon has not written yet.
R2ARing == (CodecBase + 260)..(CodecBase + 260 + 255)
A2RRing == (CodecBase + 4)..(CodecBase + 4 + 255)
Untouched == 170

\* The SRAM after a write on the bus.
Written(sram, w) ==
  [a \in DOMAIN sram |->
     IF a >= w.address /\ a < w.address + Len(w.data) THEN w.data[a - w.address + 1]
     ELSE sram[a]]

RECURSIVE WrittenAll(_, _)
WrittenAll(sram, bus) ==
  IF bus = <<>> THEN sram ELSE WrittenAll(Written(sram, Head(bus)), Tail(bus))

\* The bytes a read on the bus returns.
spi_read_mem(sram, address, length) ==
  [k \in 1..length |-> sram[(address % 1048576) + k - 1]]

\* recv_buf after the one or two reads of receive_from_a2r.
A2RRead(sram, base, head, tail) ==
  IF head < tail
  THEN spi_read_mem(sram, base + 4 + head, tail - head)
  ELSE spi_read_mem(sram, base + 4 + head, 256 - head)
       \o (IF tail # 0 THEN spi_read_mem(sram, base + 4, tail) ELSE <<>>)

RECURSIVE A2RWalk(_, _, _)
\* The while loop over recv_buf from position p: the packets handed to
\* handle_received_pkt.  A byte past the bytes read is not one of this drain.
A2RWalk(recv_buf, p, len) ==
  IF p >= len THEN <<>>
  ELSE LET at(i) == IF i < Len(recv_buf) THEN recv_buf[i + 1] ELSE Untouched
           plen == at(p)
           ptype == at(p + 1)
           channel_id == at(p + 2)
       IN <<[type |-> ptype, channel_id |-> channel_id,
             data |-> [k \in 1..plen |-> at(p + 2 + k)]]>>
          \o A2RWalk(recv_buf, p + 3 + plen, len)

\* The packets receive_from_a2r hands on, for a ring between head and tail.
A2RDecode(sram, base, head, tail) ==
  IF (tail - head) % 256 = 0 THEN <<>>
  ELSE A2RWalk(A2RRead(sram, base, head, tail), 0, (tail - head) % 256)

\* A channel the peer has opened and that is not associated.
CodecChannel(channel_id) ==
  [channel_id |-> channel_id, association |-> Nullptr, stream_id |-> 0,
   got_eos_from_ami |-> FALSE, got_eos_from_client |-> FALSE,
   packet_queue |-> <<>>, ex |-> Nullptr]

RECURSIVE EnqueueAll(_, _)
\* create_and_enqueue_packet for each packet, on the channel it names.
EnqueueAll(st, pkts) ==
  IF pkts = <<>> THEN st
  ELSE EnqueueAll(
         create_and_enqueue_packet(
           IF ChanIdx(st, Head(pkts).channel_id) = 0
           THEN [st EXCEPT !.channels = Append(@, CodecChannel(Head(pkts).channel_id))]
           ELSE st,
           Head(pkts).channel_id, Head(pkts).type, Head(pkts).data,
           Len(Head(pkts).data)),
         Tail(pkts))

\* The daemon with the base address read, R2A_HEAD and R2A_TAIL as given, and
\* the packets enqueued.
CodecState(head, tail, pkts) ==
  EnqueueAll([State("ok", <<>>, FALSE)
                EXCEPT !.have_base_address = TRUE,
                       !.base_address = CodecBase,
                       !.channel_status =
                          [<<0, 0, 0, 0>> EXCEPT ![R2A_HEAD_OFFSET + 1] = head,
                                                 ![R2A_TAIL_OFFSET + 1] = tail]],
             pkts)

InitCodec ==
  /\ pc = "start"
  /\ connections = <<>>
  /\ services = <<>>
  /\ channels = <<>>
  /\ send_queue = <<>>
  /\ have_base_address = FALSE
  /\ base_address = 0
  /\ channel_status = <<0, 0, 0, 0>>
  /\ channel_status_updated = 0
  /\ first_gpio_event = TRUE
  /\ shutting_down = FALSE
  /\ server_socket = TRUE
  /\ sram_status = <<0, 0, 0, 0>>
  /\ r2a_unconsumed = 0
  /\ r2a_packets = 0
  /\ r2a_stale = 0
  /\ world = "wide"
  /\ timeout = MaxWait
  /\ \E t \in CodecTails, u \in CodecUsed, ps \in CodecSequences :
        codec = [stage |-> "encode", head |-> (t + 256 - u) % 256, tail |-> t,
                 packets |-> ps, sram |-> [a \in R2ARing |-> Untouched],
                 send_buf |-> <<>>, bus |-> <<>>, written |-> <<>>,
                 new_tail |-> t, updated |-> 0, ret |-> FALSE, decoded |-> <<>>]

\* flush_send_queue on the packets: the bus writes go into the ring.
CodecEncode ==
  /\ codec.stage = "encode"
  /\ \E st \in {flush_send_queue(CodecState(codec.head, codec.tail, codec.packets))} :
        codec' = [codec EXCEPT
                    !.stage = "decode",
                    !.sram = WrittenAll(@, st.log.bus),
                    !.send_buf = st.log.send_buf,
                    !.bus = st.log.bus,
                    !.written = [j \in 1..Len(st.log.written) |->
                                   [type |-> st.log.written[j].type,
                                    channel_id |-> st.log.written[j].channel_id,
                                    data |-> st.log.written[j].data]],
                    !.new_tail = st.channel_status[R2A_TAIL_OFFSET + 1],
                    !.updated = st.channel_status_updated,
                    !.ret = st.ret]
  /\ UNCHANGED <<connections, services, channels, send_queue, have_base_address,
                 base_address, channel_status, channel_status_updated, pc,
                 first_gpio_event, shutting_down, server_socket, sram_status,
                 r2a_unconsumed, r2a_packets, r2a_stale, world, timeout>>

\* The read and the walk of receive_from_a2r on a ring with the bytes of the R2A
\* ring, from the old tail to the new one.
CodecDecode ==
  /\ codec.stage = "decode"
  /\ codec' = [codec EXCEPT
                 !.stage = "done",
                 !.decoded = A2RDecode([a \in A2RRing |-> codec.sram[a + 256]],
                                       CodecBase, codec.tail, codec.new_tail)]
  /\ UNCHANGED <<connections, services, channels, send_queue, have_base_address,
                 base_address, channel_status, channel_status_updated, pc,
                 first_gpio_event, shutting_down, server_socket, sram_status,
                 r2a_unconsumed, r2a_packets, r2a_stale, world, timeout>>

NextCodec ==
  \/ CodecEncode
  \/ CodecDecode

SpecCodec == InitCodec /\ [][NextCodec]_vars

(***************************************************************************)
(* Frames in the A2R ring.  SpecFrames puts bytes of the peer, well framed *)
(* or not, into the A2R ring of a daemon that has one client, the service  *)
(* of that client and channel 1 associated with it, and runs                *)
(* handle_a314_irq on R_EVENT_A2R_TAIL: the read of the ring into recv_buf, *)
(* the walk over recv_buf and the handling of each packet of the walk.     *)
(***************************************************************************)
\* A2R_HEAD before the interrupt.
FrameHeads == {0, 100, 254}

\* What the peer has put between A2R_HEAD and A2R_TAIL: whole packets, a
\* payload shorter than its length byte says, a header of fewer than 3 bytes,
\* and a whole packet followed by such a header.
FrameBytes ==
  {<<1, PKT_DATA, 1, 7>>,
   <<0, PKT_EOS, 1>>,
   <<0, PKT_RESET, 1>>,
   <<1, PKT_CONNECT, 1, 97>>,
   <<1, PKT_CONNECT, 2, 97>>,
   <<1, PKT_DATA, 1, 7, 0, PKT_EOS, 1>>,
   <<3, PKT_DATA, 1, 7>>,
   <<1, PKT_DATA, 1>>,
   <<0, PKT_EOS>>,
   <<1>>,
   <<1, PKT_DATA, 1, 7, 2, PKT_DATA>>}

\* recv_buf is a static array: past the bytes of this read it holds what was
\* there before.  The value of those bytes, and how many of them the model keeps.
StaleBytes == {0, 1, PKT_DATA, Untouched}
StaleLen == 260

\* The A2R ring with the bytes from head on.
FrameRing(head, bytes) ==
  [a \in A2RRing |->
     LET k == (a - (CodecBase + 4) + 256 - head) % 256
     IN IF k < Len(bytes) THEN bytes[k + 1] ELSE Untouched]

\* The packets the walk of receive_from_a2r hands on when recv_buf held the
\* byte stale everywhere before the read.
FrameWalk(sram, base, head, tail, stale) ==
  A2RWalk(A2RRead(sram, base, head, tail) \o [k \in 1..StaleLen |-> stale],
          0, (tail - head) % 256)

\* The daemon before the interrupt: client 1 has registered NameA, the peer
\* has connected channel 1 to it and the client has accepted (stream id 1).
FrameState(head, tail, sram, stale) ==
  [State("ok", FrameWalk(sram, CodecBase, head, tail, stale), FALSE)
     EXCEPT !.have_base_address = TRUE,
            !.base_address = CodecBase,
            !.connections = <<[NewConnection(1) EXCEPT !.next_stream_id = 3,
                                                       !.associations = <<1>>,
                                                       !.made = 1]>>,
            !.services = <<[name |-> NameA, cc |-> 1]>>,
            !.channels = <<[CodecChannel(1) EXCEPT !.association = 1,
                                                   !.stream_id = 1]>>,
            !.channel_status = <<tail, 0, 0, head>>,
            !.sram_status = <<tail, 0, 0, head>>]

\* The variables of the daemon where a specification of one function does not
\* use them: as after the static initialisers.
DaemonAtStart ==
  /\ pc = "start"
  /\ connections = <<>>
  /\ services = <<>>
  /\ channels = <<>>
  /\ send_queue = <<>>
  /\ have_base_address = FALSE
  /\ base_address = 0
  /\ channel_status = <<0, 0, 0, 0>>
  /\ channel_status_updated = 0
  /\ first_gpio_event = TRUE
  /\ shutting_down = FALSE
  /\ server_socket = TRUE
  /\ sram_status = <<0, 0, 0, 0>>
  /\ r2a_unconsumed = 0
  /\ r2a_packets = 0
  /\ r2a_stale = 0
  /\ world = "wide"
  /\ timeout = MaxWait

InitFrames ==
  /\ DaemonAtStart
  /\ \E h \in FrameHeads, b \in FrameBytes, s \in StaleBytes :
        codec = [stage |-> "frame", head |-> h, tail |-> (h + Len(b)) % 256,
                 bytes |-> b, stale |-> s, sram |-> FrameRing(h, b),
                 handed |-> <<>>, exited |-> FALSE, msgs |-> <<>>,
                 channels |-> <<>>, a2r_head |-> h]

\* handle_a314_irq with R_EVENT_A2R_TAIL set.
FrameReceive ==
  /\ codec.stage = "frame"
  /\ \E s0 \in {FrameState(codec.head, codec.tail, codec.sram, codec.stale)} :
     \E st \in {handle_a314_irq(s0, R_EVENT_A2R_TAIL, CodecBase + 1, CodecBase + 1)} :
        codec' = [codec EXCEPT
                    !.stage = "received",
                    !.handed = s0.a2r,
                    !.exited = st.exited,
                    !.msgs = [j \in 1..Len(st.log.msgs) |->
                                [type |-> st.log.msgs[j].type,
                                 stream_id |-> st.log.msgs[j].stream_id,
                                 data |-> st.log.msgs[j].data]],
                    !.channels = IF st.exited THEN <<>>
                                 ELSE [j \in 1..Len(st.channels) |->
                                         st.channels[j].channel_id],
                    !.a2r_head = IF st.exited THEN 0
                                 ELSE st.channel_status[A2R_HEAD_OFFSET + 1]]
  /\ UNCHANGED <<connections, services, channels, send_queue, have_base_address,
                 base_address, channel_status, channel_status_updated, pc,
                 first_gpio_event, shutting_down, server_socket, sram_status,
                 r2a_unconsumed, r2a_packets, r2a_stale, world, timeout>>

NextFrames == FrameReceive

SpecFrames == InitFrames /\ [][NextFrames]_vars

(***************************************************************************)
(* The bytes on a client socket.  SpecSock follows the messages of one      *)
(* connection byte by byte: create_and_send_msg builds the MessageBuffer    *)
(* and writes or queues it, the EPOLLOUT branch of                          *)
(* handle_client_connection_event drains message_queue.  write() takes a    *)
(* part of what it is given or fails with EAGAIN.                          *)
(***************************************************************************)
\* Messages made for one connection, and write() calls of one handler that take
\* bytes before one fails with EAGAIN.
MaxSockMsgs == 3
MaxSockWrites == 3

\* sizeof(MessageHeader) under #pragma pack(1).
HeaderSize == 9

\* A uint32_t in memory, least significant byte first.
LE32(n) ==
  <<n % 256, (n \div 256) % 256, (n \div 65536) % 256, (n \div 16777216) % 256>>

\* mb.data: the header (length, stream_id, type) and the payload.
MessageData(type, stream_id, data) ==
  LE32(Len(data)) \o LE32(stream_id) \o <<type>> \o data

\* The messages the daemon makes: type, stream id, payload.
SockMessages ==
  {<<MSG_DATA, 1, <<7>>>>, <<MSG_EOS, 1, <<>>>>, <<MSG_RESET, 3, <<>>>>,
   <<MSG_DATA, 3, <<8, 9>>>>}

\* How many bytes a write() takes at most when it does not fail.
SockCounts == {1, 4, 9, 12}
\* The write() calls of one handler: those that take bytes, then EAGAIN.
SockWrites == UNION {[1..n -> SockCounts] : n \in 0..MaxSockWrites}

RECURSIVE SendLoop_restarts(_, _, _)
\* As SendLoop, with every write() starting at the first byte of the message.
SendLoop_restarts(cc, mb, ws) ==
  IF ws = <<>> THEN [cc EXCEPT !.message_queue = Append(@, mb)]
  ELSE LET left == Len(mb.data) - mb.pos
           r == IF Head(ws) < left THEN Head(ws) ELSE left
       IN The({IF r = left THEN c1
               ELSE SendLoop_restarts(c1, [mb EXCEPT !.pos = @ + r], Tail(ws)) :
               c1 \in {[cc EXCEPT !.out = @ \o SubSeq(mb.data, 1, r)]}})

RECURSIVE SendLoop(_, _, _)
\* The while loop of create_and_send_msg: write() from mb.pos on, until the
\* message is out or write() fails with EAGAIN and the rest is queued.
SendLoop(cc, mb, ws) ==
  IF ws = <<>> THEN [cc EXCEPT !.message_queue = Append(@, mb)]
  ELSE LET left == Len(mb.data) - mb.pos
           r == IF Head(ws) < left THEN Head(ws) ELSE left
       IN The({IF r = left THEN c1
               ELSE SendLoop(c1, [mb EXCEPT !.pos = @ + r], Tail(ws)) :
               c1 \in {[cc EXCEPT !.out = @ \o SubSeq(mb.data, mb.pos + 1, mb.pos + r)]}})

\* create_and_send_msg on the bytes: cc is the connection (message_queue, and out,
\* the bytes its socket has taken), ws the write() calls.
SendMessage(cc, type, stream_id, data, ws) ==
  LET mb == [pos |-> 0, data |-> MessageData(type, stream_id, data)]
  IN IF cc.message_queue # <<>> THEN [cc EXCEPT !.message_queue = Append(@, mb)]
     ELSE SendLoop(cc, mb, ws)

RECURSIVE EpolloutLoop(_, _)
\* The EPOLLOUT loop: write() from the position of the front message on.
EpolloutLoop(cc, ws) ==
  IF cc.message_queue = <<>> \/ ws = <<>> THEN cc
  ELSE LET mb == cc.message_queue[1]
           left == Len(mb.data) - mb.pos
           r == IF Head(ws) < left THEN Head(ws) ELSE left
       IN The({EpolloutLoop(IF r = left THEN [c1 EXCEPT !.message_queue = Tail(@)]
                            ELSE c1,
                            Tail(ws)) :
               c1 \in {[cc EXCEPT !.out = @ \o SubSeq(mb.data, mb.pos + 1, mb.pos + r),
                                  !.message_queue[1].pos = @ + r]}})

InitSock ==
  /\ DaemonAtStart
  /\ codec = [stage |-> "sock", message_queue |-> <<>>, out |-> <<>>,
              created |-> <<>>]

\* A message is made for the connection.
SockSend ==
  /\ codec.stage = "sock"
  /\ Len(codec.created) < MaxSockMsgs
  /\ \E m \in SockMessages, ws \in SockWrites :
     \E cc \in {SendMessage([message_queue |-> codec.message_queue, out |-> codec.out],
                            m[1], m[2], m[3], ws)} :
        codec' = [codec EXCEPT !.message_queue = cc.message_queue,
                               !.out = cc.out,
                               !.created = Append(@, MessageData(m[1], m[2], m[3]))]
  /\ UNCHANGED <<connections, services, channels, send_queue, have_base_address,
                 base_address, channel_status, channel_status_updated, pc,
                 first_gpio_event, shutting_down, server_socket, sram_status,
                 r2a_unconsumed, r2a_packets, r2a_stale, world, timeout>>

\* EPOLLOUT on the connection.
SockEpollout ==
  /\ codec.stage = "sock"
  /\ \E ws \in SockWrites :
     \E cc \in {EpolloutLoop([message_queue |-> codec.message_queue, out |-> codec.out],
                             ws)} :
        codec' = [codec EXCEPT !.message_queue = cc.message_queue, !.out = cc.out]
  /\ UNCHANGED <<connections, services, channels, send_queue, have_base_address,
                 base_address, channel_status, channel_status_updated, pc,
                 first_gpio_event, shutting_down, server_socket, sram_status,
                 r2a_unconsumed, r2a_packets, r2a_stale, world, timeout>>

NextSock ==
  \/ SockSend
  \/ SockEpollout

SpecSock == InitSock /\ [][NextSock]_vars

(***************************************************************************)
(* Memory requests of a client.  SpecMem applies handle_msg_read_mem_req   *)
(* and handle_msg_write_mem_req to requests whose address and length the   *)
(* client chooses, and keeps the length of the bus transfer each makes.    *)
(* A 32-bit unsigned value is the pair <<high, low>> of its 16-bit halves. *)
(***************************************************************************)
Word == 65536
\* The size of tx_buf and of rx_buf.
BufSize == <<1, 0>>
READ_SRAM_HDR_LEN == 4
WRITE_SRAM_HDR_LEN == 3
MSG_READ_MEM_REQ == 5
MSG_WRITE_MEM_REQ == 7

\* unsigned int arithmetic: v + c and v - c modulo 2^32, for a small c.
U32Add(v, c) == <<(v[1] + ((v[2] + c) \div Word)) % Word, (v[2] + c) % Word>>
U32Sub(v, c) ==
  <<(v[1] + Word - (IF v[2] < c THEN 1 ELSE 0)) % Word, (v[2] + Word - c) % Word>>
\* v <= w.
U32Leq(v, w) == v[1] < w[1] \/ (v[1] = w[1] /\ v[2] <= w[2])

\* The length spi_read_mem hands to transfer, and the one of spi_write_mem.
ReadTransfer(length) == U32Add(length, READ_SRAM_HDR_LEN)
WriteTransfer(length) == U32Add(length, WRITE_SRAM_HDR_LEN)

\* The transfers of the daemon's own traffic: a nibble of CMEM, the four status
\* bytes, the two written back, and a read or write of up to a whole ring.
OwnTransfers ==
  {<<0, 2>>, ReadTransfer(<<0, 4>>), WriteTransfer(<<0, 2>>)}
  \cup {ReadTransfer(<<0, n>>) : n \in {1, 255, 256}}
  \cup {WriteTransfer(<<0, n>>) : n \in {1, 255, 256}}

\* address and length are payload[0..3] and payload[4..7]; the result is the
\* length of the transfer and of the payload of MSG_READ_MEM_RES.
handle_msg_read_mem_req(address, length) ==
  [transfer |-> ReadTransfer(length), filled |-> <<0, 0>>, reply |-> length]

\* size is payload.size(); filled is how far memcpy fills tx_buf: the header and
\* size - 4 bytes.
handle_msg_write_mem_req(address, size) ==
  [transfer |-> WriteTransfer(U32Sub(size, 4)),
   filled |-> IF U32Leq(U32Sub(size, 4), <<Word - 1, Word - 1 - WRITE_SRAM_HDR_LEN>>)
              THEN U32Add(U32Sub(size, 4), WRITE_SRAM_HDR_LEN)
              ELSE <<Word - 1, Word - 1>>,
   reply |-> <<0, 0>>]

\* Addresses and lengths a client chooses: around the room the buffers leave
\* after the command header, and the ends of the 32-bit range.
MemAddresses == {<<0, 0>>, <<0, 16>>, <<15, 65535>>, <<65535, 65535>>}
MemLengths ==
  {<<0, 0>>, <<0, 1>>, <<0, 4>>, <<0, 5>>, <<0, 256>>, <<0, 65531>>, <<0, 65532>>,
   <<0, 65533>>, <<0, 65534>>, <<1, 0>>, <<1, 1>>, <<1, 4>>, <<65535, 65535>>}

InitMem ==
  /\ DaemonAtStart
  /\ \E t \in {MSG_READ_MEM_REQ, MSG_WRITE_MEM_REQ}, a \in MemAddresses,
        n \in MemLengths :
        codec = [stage |-> "mem", type |-> t, address |-> a, length |-> n,
                 transfer |-> <<0, 0>>, filled |-> <<0, 0>>, reply |-> <<0, 0>>]

\* handle_received_message on the request.
MemRequest ==
  /\ codec.stage = "mem"
  /\ \E r \in {IF codec.type = MSG_READ_MEM_REQ
               THEN handle_msg_read_mem_req(codec.address, codec.length)
               ELSE handle_msg_write_mem_req(codec.address, codec.length)} :
        codec' = [codec EXCEPT !.stage = "done", !.transfer = r.transfer,
                               !.filled = r.filled, !.reply = r.reply]
  /\ UNCHANGED <<connections, services, channels, send_queue, have_base_address,
                 base_address, channel_status, channel_status_updated, pc,
                 first_gpio_event, shutting_down, server_socket, sram_status,
                 r2a_unconsumed, r2a_packets, r2a_stale, world, timeout>>

NextMem == MemRequest

SpecMem == InitMem /\ [][NextMem]_vars

(***************************************************************************)
(* The bytes from a client socket.  SpecRecv follows the EPOLLIN loop of    *)
(* handle_client_connection_event byte by byte: bytes_read, the header, the *)
(* payload vector, and the messages handed to handle_received_message.     *)
(* read() returns a part of what has arrived or fails with EAGAIN.         *)
(***************************************************************************)
\* Messages in the stream of one client, and read() calls of one event that
\* return bytes before one fails with EAGAIN.
MaxRecvMsgs == 3
MaxRecvReads == 3

\* The messages a client sends: type, stream id, payload.
RecvMessages ==
  {<<MSG_EOS, 1, <<>>>>, <<MSG_DATA, 1, <<7>>>>, <<MSG_DATA, 3, <<8, 9>>>>,
   <<MSG_REGISTER_REQ, 0, <<97>>>>}
RecvStreams == UNION {[1..n -> RecvMessages] : n \in 0..MaxRecvMsgs}

\* How many bytes have arrived at most when read() is called.
RecvCounts == {1, 3, 9, 12}
RecvReads == UNION {[1..n -> RecvCounts] : n \in 0..MaxRecvReads}

\* The fields of the header in memory.
HeaderLength(header) ==
  header[1] + 256 * header[2] + 65536 * header[3] + 16777216 * header[4]
HeaderStreamId(header) ==
  header[5] + 256 * header[6] + 65536 * header[7] + 16777216 * header[8]
HeaderType(header) == header[9]

\* buf with the bytes got stored from position at on.
Stored(buf, at, got) ==
  [k \in 1..Len(buf) |-> IF k > at /\ k <= at + Len(got) THEN got[k - at] ELSE buf[k]]

\* What handle_received_message is called with.
Received(cc) ==
  [type |-> HeaderType(cc.header), stream_id |-> HeaderStreamId(cc.header),
   length |-> HeaderLength(cc.header), payload |-> cc.payload]

\* As Completed, without payload.clear().
Completed_keeps_payload(cc) ==
  IF cc.payload = <<>>
  THEN IF HeaderLength(cc.header) = 0
       THEN [cc EXCEPT !.dispatched = Append(@, Received(cc)), !.bytes_read = 0]
       ELSE [cc EXCEPT !.payload = Zeros(HeaderLength(cc.header)), !.bytes_read = 0]
  ELSE [cc EXCEPT !.dispatched = Append(@, Received(cc)), !.bytes_read = 0]

\* The state of the connection after a read() of r bytes that completes the
\* header or the payload.
Completed(cc) ==
  IF cc.payload = <<>>
  THEN IF HeaderLength(cc.header) = 0
       THEN [cc EXCEPT !.dispatched = Append(@, Received(cc)), !.bytes_read = 0]
       ELSE [cc EXCEPT !.payload = Zeros(HeaderLength(cc.header)), !.bytes_read = 0]
  ELSE [cc EXCEPT !.dispatched = Append(@, Received(cc)), !.payload = <<>>,
                  !.bytes_read = 0]

RECURSIVE EpollinLoop(_, _)
\* The EPOLLIN loop: cc.input holds the bytes the client has sent and read() has
\* not returned yet, rs the read() calls that return bytes.
EpollinLoop(cc, rs) ==
  IF rs = <<>> \/ cc.input = <<>> THEN cc
  ELSE LET in_header == cc.payload = <<>>
           left == IF in_header THEN HeaderSize - cc.bytes_read
                   ELSE HeaderLength(cc.header) - cc.bytes_read
           avail == IF Head(rs) < Len(cc.input) THEN Head(rs) ELSE Len(cc.input)
           r == IF avail < left THEN avail ELSE left
           got == SubSeq(cc.input, 1, r)
       IN The({EpollinLoop(IF left - r = 0 THEN Completed(c1) ELSE c1, Tail(rs)) :
               c1 \in {[cc EXCEPT
                          !.input = SubSeq(@, r + 1, Len(@)),
                          !.header = IF in_header THEN Stored(@, cc.bytes_read, got)
                                     ELSE @,
                          !.payload = IF in_header THEN @
                                      ELSE Stored(@, cc.bytes_read, got),
                          !.bytes_read = @ + r]}})

InitRecv ==
  /\ DaemonAtStart
  /\ \E ms \in RecvStreams :
        codec = [stage |-> "recv", sent |-> ms,
                 input |-> Concat([j \in 1..Len(ms) |->
                                     MessageData(ms[j][1], ms[j][2], ms[j][3])]),
                 bytes_read |-> 0, header |-> Zeros(HeaderSize), payload |-> <<>>,
                 dispatched |-> <<>>]

\* EPOLLIN on the connection.
RecvEpollin ==
  /\ codec.stage = "recv"
  /\ \E rs \in RecvReads :
     \E cc \in {EpollinLoop([input |-> codec.input, bytes_read |-> codec.bytes_read,
                             header |-> codec.header, payload |-> codec.payload,
                             dispatched |-> codec.dispatched], rs)} :
        codec' = [codec EXCEPT !.input = cc.input, !.bytes_read = cc.bytes_read,
                               !.header = cc.header, !.payload = cc.payload,
                               !.dispatched = cc.dispatched]
  /\ UNCHANGED <<connections, services, channels, send_queue, have_base_address,
                 base_address, channel_status, channel_status_updated, pc,
                 first_gpio_event, shutting_down, server_socket, sram_status,
                 r2a_unconsumed, r2a_packets, r2a_stale, world, timeout>>

NextRecv == RecvEpollin

SpecRecv == InitRecv /\ [][NextRecv]_vars

(***************************************************************************)
(* picmd, the client on the Amiga side (pi.c).  SpecPicmd follows its event *)
(* loop: the console wait request (wait_sp) and the A314 read request       *)
(* (read_ior) are sent asynchronously and replied to the port async_mp;     *)
(* the commands on the sync port (a314_write, a314_eos, a314_reset,         *)
(* con_read, con_write) are complete when their function returns.  codec    *)
(* holds the three flags of the program, its position (at), the messages    *)
(* at async_mp, the requests the console and a314.device hold, the signal   *)
(* bit of the port, the commands sent on the socket, and whether a request   *)
(* was started with stream_closed set (late).                              *)
(***************************************************************************)
\* Largest number of A314_WRITE, A314_EOS and A314_RESET commands followed.
MaxPicmdCmds == 3

\* dp_Res1 of a completed ACTION_WAIT_CHAR, the lengths con_read returns, and
\* io_Error of a completed A314_READ.
WaitResults == {"DOSFALSE", "DOSTRUE"}
ConReadLengths == {-1, 0, 1, 64}
ReadResults == {"A314_READ_OK", "A314_READ_EOS", "A314_READ_RESET", "other"}

\* start_a314_cmd on the sync port followed by Wait and GetMsg.
a314_sync_cmd(p, cmd) == [p EXCEPT !.cmds = Append(@, cmd)]
a314_write(p) == a314_sync_cmd(p, "A314_WRITE")
a314_eos(p) == a314_sync_cmd(p, "A314_EOS")
a314_reset(p) == a314_sync_cmd(p, "A314_RESET")

start_con_wait(p) ==
  [p EXCEPT !.con_waits = @ + 1,
            !.pending_con_wait = TRUE,
            !.late = @ \/ p.stream_closed]

start_a314_read(p) ==
  [p EXCEPT !.a314_reads = @ + 1,
            !.pending_a314_read = TRUE,
            !.late = @ \/ p.stream_closed]

\* As handle_con_wait_completed, without the return when stream_closed is set.
handle_con_wait_completed_when_closed(p, res1, len) ==
  The({IF res1 = "DOSFALSE" THEN start_con_wait(p1)
       ELSE IF len = 0 \/ len = -1
         THEN [a314_reset(p1) EXCEPT !.stream_closed = TRUE]
       ELSE start_con_wait(a314_write(p1)) :
       p1 \in {[p EXCEPT !.pending_con_wait = FALSE]}})

\* res1 is wait_sp.sp_Pkt.dp_Res1, len what con_read returns.
handle_con_wait_completed(p, res1, len) ==
  The({IF p1.stream_closed THEN p1
       ELSE IF res1 = "DOSFALSE" THEN start_con_wait(p1)
       ELSE IF len = 0 \/ len = -1
         THEN [a314_reset(p1) EXCEPT !.stream_closed = TRUE]
       ELSE start_con_wait(a314_write(p1)) :
       p1 \in {[p EXCEPT !.pending_con_wait = FALSE]}})

\* res is read_ior->a314_Request.io_Error.
handle_a314_read_completed(p, res) ==
  The({IF p1.stream_closed THEN p1
       ELSE IF res = "A314_READ_OK" THEN start_a314_read(p1)
       ELSE IF res = "A314_READ_EOS" THEN [a314_eos(p1) EXCEPT !.stream_closed = TRUE]
       ELSE IF res = "A314_READ_RESET" THEN [p1 EXCEPT !.stream_closed = TRUE]
       ELSE p1 :
       p1 \in {[p EXCEPT !.pending_a314_read = FALSE]}})

\* The program after create_and_send_start_msg, before its first request.
InitPicmd ==
  /\ DaemonAtStart
  /\ codec = [stage |-> "picmd", at |-> "start",
              pending_a314_read |-> FALSE, pending_con_wait |-> FALSE,
              stream_closed |-> FALSE,
              port |-> <<>>, signalled |-> FALSE,
              con_waits |-> 0, a314_reads |-> 0,
              cmds |-> <<>>, late |-> FALSE]

PicmdUnchanged ==
  UNCHANGED <<connections, services, channels, send_queue, have_base_address,
              base_address, channel_status, channel_status_updated, pc,
              first_gpio_event, shutting_down, server_socket, sram_status,
              r2a_unconsumed, r2a_packets, r2a_stale, world, timeout>>

\* start_con_wait(); start_a314_read(); before the loop.
PicmdStart ==
  /\ codec.stage = "picmd"
  /\ codec.at = "start"
  /\ codec' = [start_a314_read(start_con_wait(codec)) EXCEPT !.at = "Wait"]
  /\ PicmdUnchanged

\* The console replies to an ACTION_WAIT_CHAR: the packet goes to async_mp and
\* the port's signal is set.
ConsoleReplies ==
  /\ codec.stage = "picmd"
  /\ codec.at # "exit"
  /\ codec.con_waits > 0
  /\ \E r \in WaitResults :
        codec' = [codec EXCEPT !.con_waits = @ - 1,
                               !.port = Append(@, [msg |-> "wait_sp", res |-> r]),
                               !.signalled = TRUE]
  /\ PicmdUnchanged

\* a314.device replies to an A314_READ.
DeviceReplies ==
  /\ codec.stage = "picmd"
  /\ codec.at # "exit"
  /\ codec.a314_reads > 0
  /\ \E r \in ReadResults :
        codec' = [codec EXCEPT !.a314_reads = @ - 1,
                               !.port = Append(@, [msg |-> "read_ior", res |-> r]),
                               !.signalled = TRUE]
  /\ PicmdUnchanged

\* Wait(portsig | SIGBREAKF_CTRL_C) returns: with portsig when the port has been
\* signalled, without it on CTRL-C alone.
PicmdWait ==
  /\ codec.stage = "picmd"
  /\ codec.at = "Wait"
  /\ \E ctrl_c \in BOOLEAN :
        /\ codec.signalled \/ ctrl_c
        /\ codec' = [codec EXCEPT !.at = IF codec.signalled THEN "GetMsg" ELSE "test",
                                  !.signalled = FALSE]
  /\ PicmdUnchanged

\* One turn of while (msg = GetMsg(async_mp)): the handler of the message, or the
\* end of the loop when the port is empty.
PicmdGetMsg ==
  /\ codec.stage = "picmd"
  /\ codec.at = "GetMsg"
  /\ IF codec.port = <<>> THEN codec' = [codec EXCEPT !.at = "test"]
     ELSE \E len \in ConReadLengths :
            \E p \in {[codec EXCEPT !.port = Tail(@)]} :
            \E q \in {IF Head(codec.port).msg = "wait_sp"
                      THEN handle_con_wait_completed(p, Head(codec.port).res, len)
                      ELSE handle_a314_read_completed(p, Head(codec.port).res)} :
               /\ Len(q.cmds) <= MaxPicmdCmds
               /\ codec' = q
  /\ PicmdUnchanged

\* if (stream_closed && !pending_a314_read && !pending_con_wait) break;
PicmdExitTest ==
  /\ codec.stage = "picmd"
  /\ codec.at = "test"
  /\ codec' = [codec EXCEPT !.at =
                 IF codec.stream_closed /\ ~codec.pending_a314_read
                                        /\ ~codec.pending_con_wait
                 THEN "exit" ELSE "Wait"]
  /\ PicmdUnchanged

NextPicmd ==
  \/ PicmdStart
  \/ ConsoleReplies
  \/ DeviceReplies
  \/ PicmdWait
  \/ PicmdGetMsg
  \/ PicmdExitTest

SpecPicmd == InitPicmd /\ [][NextPicmd]_vars

(***************************************************************************)
(* Properties.  A property of what a handler does is stated on Runs: the   *)
(* results, with their logs, of the handlers that can run in the state.    *)
(***************************************************************************)
InSendQueue(channel_id) == \E j \in 1..Len(send_queue) : send_queue[j] = channel_id

\* C1: between handlers a channel is in send_queue if and only if its packet_queue
\* is not empty, and no channel is in send_queue more than once.
C1_SendQueueHoldsChannelsWithPackets ==
  /\ \A k \in 1..Len(channels) :
        channels[k].packet_queue # <<>> <=> InSendQueue(channels[k].channel_id)
  /\ \A j \in 1..Len(send_queue) :
        \E k \in 1..Len(channels) : channels[k].channel_id = send_queue[j]
  /\ \A j, k \in 1..Len(send_queue) : send_queue[j] = send_queue[k] => j = k

\* A channel with two packets waiting, once in send_queue, while the ring is full.
C1_Witness ==
  /\ r2a_unconsumed > 0
  /\ \E k \in 1..Len(channels) :
        /\ Len(channels[k].packet_queue) = 2
        /\ send_queue = <<channels[k].channel_id>>

\* C2: whatever the interleaving of the flushes with the peer's consumption, the
\* R2A ring never holds more than 255 unconsumed bytes: what the ring holds is the
\* distance from R2A_HEAD to R2A_TAIL in SRAM, and no handler's flush takes it
\* beyond 255, also when the daemon's copy of R2A_HEAD is stale.
C2_R2ANeverOverfilled ==
  /\ r2a_unconsumed <= 255
  /\ (sram_status[R2A_TAIL_OFFSET + 1] - sram_status[R2A_HEAD_OFFSET + 1]) % 256
        = r2a_unconsumed
  /\ \A st \in Runs : ~st.exited => st.r2a_unconsumed <= 255

\* The peer has consumed packets the daemon has not seen consumed, and a handler
\* flushes: it writes a packet, and one that does not fit stays in its queue.
C2_Witness ==
  /\ r2a_stale > 0
  /\ channel_status[R2A_HEAD_OFFSET + 1] # sram_status[R2A_HEAD_OFFSET + 1]
  /\ \E st \in Runs : /\ ~st.exited
                      /\ st.log.written # <<>>
                      /\ st.send_queue # <<>>

C4_NoDataAfterPeerEos ==
  \A st \in Runs : \A j \in 1..Len(st.log.msgs) :
     st.log.msgs[j].type = MSG_DATA => ~st.log.msgs[j].after_eos

\* The peer sends PKT_DATA on an associated channel after its PKT_EOS: no message.
C4_Witness ==
  /\ IrqReady
  /\ \E x \in IrqInputs : \E k \in 1..Len(channels) :
        /\ channels[k].got_eos_from_ami
        /\ channels[k].association # Nullptr
        /\ ~BitSet(x[1], R_EVENT_BASE_ADDRESS)
        /\ x[3] = <<[type |-> PKT_DATA, channel_id |-> channels[k].channel_id,
                     data |-> Zeros(1)]>>
        /\ IrqRun(x).log.msgs = <<>>
        /\ ~IrqRun(x).exited

\* C5: after a channel has been dissociated from a client, no handler sends a
\* MSG_DATA, MSG_EOS or MSG_RESET for that channel to that client.
C5_NoMessageAfterDissociation ==
  \A st \in Runs : \A j \in 1..Len(st.log.msgs) :
     st.log.msgs[j].type \in {MSG_DATA, MSG_EOS, MSG_RESET} => ~st.log.msgs[j].to_ex

\* The record of a dissociated channel still exists, its former client is still
\* connected, and the peer sends a packet on the channel: no message.
C5_Witness ==
  /\ IrqReady
  /\ \E x \in IrqInputs : \E k \in 1..Len(channels) :
        /\ channels[k].association = Nullptr
        /\ channels[k].ex # Nullptr
        /\ \E i \in 1..Len(connections) : connections[i].id = channels[k].ex
        /\ ~BitSet(x[1], R_EVENT_BASE_ADDRESS)
        /\ Len(x[3]) = 1
        /\ x[3][1].type \in {PKT_DATA, PKT_EOS, PKT_RESET}
        /\ x[3][1].channel_id = channels[k].channel_id
        /\ IrqRun(x).log.msgs = <<>>
        /\ ~IrqRun(x).exited

\* C6: for every client c, a channel has association c if and only if it is in
\* c's associations; it is there once; and no two channels of c have the same
\* stream_id.
C6_AssociationsConsistent ==
  \A i \in 1..Len(connections) :
     /\ \A k \in 1..Len(channels) :
           channels[k].association = connections[i].id
             <=> \E j \in 1..Len(connections[i].associations) :
                    connections[i].associations[j] = channels[k].channel_id
     /\ \A j \in 1..Len(connections[i].associations) :
           \E k \in 1..Len(channels) :
              channels[k].channel_id = connections[i].associations[j]
     /\ \A j, k \in 1..Len(connections[i].associations) :
           connections[i].associations[j] = connections[i].associations[k] => j = k
     /\ \A j, k \in 1..Len(channels) :
           /\ channels[j].association = connections[i].id
           /\ channels[k].association = connections[i].id
           /\ channels[j].stream_id = channels[k].stream_id
           => j = k

\* A client with two channels, on the streams 1 and 3.
C6_Witness ==
  \E i \in 1..Len(connections) :
     /\ Len(connections[i].associations) = 2
     /\ \E j, k \in 1..Len(channels) :
           /\ channels[j].association = connections[i].id
           /\ channels[k].association = connections[i].id
           /\ channels[j].stream_id = 1
           /\ channels[k].stream_id = 3

Registered(name) == \E k \in 1..Len(services) : services[k].name = name

\* C7: no two registered services have the same name; a MSG_REGISTER_REQ for a
\* name that is registered is answered with MSG_FAIL and leaves the services as
\* they are; a PKT_CONNECT for an on-demand service adds no name that is there.
C7_ServiceNamesUnique ==
  /\ \A j, k \in 1..Len(services) : services[j].name = services[k].name => j = k
  /\ ClientReady =>
       \A x \in ClientInputs :
          /\ Len(x[2].msgs) = 1
          /\ x[2].msgs[1].type = MSG_REGISTER_REQ
          /\ Registered(x[2].msgs[1].payload)
          /\ ~ClientRun(x).exited
          => /\ ClientRun(x).log.msgs[1].type = MSG_REGISTER_RES
             /\ ClientRun(x).log.msgs[1].data = <<MSG_FAIL>>
             /\ ClientRun(x).log.closes = <<>> => ClientRun(x).services = services
  /\ IrqReady =>
       \A x \in IrqInputs :
          /\ Len(x[3]) = 1
          /\ x[3][1].type = PKT_CONNECT
          /\ Registered(x[3][1].data)
          /\ ~BitSet(x[1], R_EVENT_BASE_ADDRESS)
          /\ ~IrqRun(x).exited
          => IrqRun(x).services = services

\* A service is registered by one client, another client asks for its name and is
\* answered with MSG_FAIL.
C7_Witness ==
  /\ ClientReady
  /\ \E x \in ClientInputs :
        /\ Len(x[2].msgs) = 1
        /\ x[2].msgs[1].type = MSG_REGISTER_REQ
        /\ \E k \in 1..Len(services) :
              /\ services[k].name = x[2].msgs[1].payload
              /\ services[k].cc # connections[x[1]].id
        /\ ~ClientRun(x).exited
        /\ ClientRun(x).log.msgs[1].data = <<MSG_FAIL>>
        /\ ClientRun(x).services = services

\* C8 as stated: a channel is erased only when it has no association and its
\* packet_queue is empty, whichever operation erases it.
C8_ErasedOnlyWhenEmpty ==
  \A st \in Runs : \A j \in 1..Len(st.log.erased) :
     /\ st.log.erased[j].association = Nullptr
     /\ st.log.erased[j].queued = 0

\* C8: a channel is erased only when it has no association; its packet_queue is
\* empty as well unless close_all_logical_channels erases it, which erases every
\* channel, dissociated first, with the packets it has queued.
C8_ErasedOnlyWhenDissociated ==
  \A st \in Runs : \A j \in 1..Len(st.log.erased) :
     /\ st.log.erased[j].association = Nullptr
     /\ st.log.erased[j].by = "remove_channel" => st.log.erased[j].queued = 0

\* The base address is found again while a channel has packets queued.
C8_Witness ==
  \E st \in Runs : \E j \in 1..Len(st.log.erased) :
     /\ st.log.erased[j].by = "close_all"
     /\ st.log.erased[j].queued > 0
     /\ st.log.erased[j].association = Nullptr

\* C9: when a connection is destroyed, every channel it had is left with no
\* association, stream_id 0 and a packet_queue of one PKT_RESET, its services are
\* removed, and no channel and no service refers to it; between handlers every
\* association and every service refers to a connection there is.
C9_ConnectionLeavesNothing ==
  /\ \A st \in Runs : \A j \in 1..Len(st.log.closes) :
        /\ \A h \in 1..Len(st.log.closes[j].had) :
              \E k \in 1..Len(st.log.closes[j].channels) :
                 /\ st.log.closes[j].channels[k].channel_id = st.log.closes[j].had[h]
                 /\ st.log.closes[j].channels[k].association = Nullptr
                 /\ st.log.closes[j].channels[k].stream_id = 0
                 /\ Len(st.log.closes[j].channels[k].packet_queue) = 1
                 /\ st.log.closes[j].channels[k].packet_queue[1].type = PKT_RESET
                 /\ st.log.closes[j].channels[k].packet_queue[1].data = <<>>
        /\ \A k \in 1..Len(st.log.closes[j].channels) :
              st.log.closes[j].channels[k].association # st.log.closes[j].cc
        /\ \A k \in 1..Len(st.log.closes[j].services) :
              st.log.closes[j].services[k].cc # st.log.closes[j].cc
  /\ \A k \in 1..Len(channels) :
        channels[k].association # Nullptr
          => \E i \in 1..Len(connections) : connections[i].id = channels[k].association
  /\ \A k \in 1..Len(services) :
        \E i \in 1..Len(connections) : connections[i].id = services[k].cc

\* write() fails with ECONNRESET while the message_queue of a connection that has
\* a channel and a service is drained: the connection is destroyed.
C9_Witness ==
  /\ ClientReady
  /\ \E x \in ClientInputs :
        /\ x[3] = "reset"
        /\ connections[x[1]].associations # <<>>
        /\ \E k \in 1..Len(services) : services[k].cc = connections[x[1]].id
        /\ Len(ClientRun(x).log.closes) = 1
        /\ ClientRun(x).log.closes[1].cc = connections[x[1]].id
        /\ ClientRun(x).log.closes[1].had = connections[x[1]].associations

\* The result of handle_a314_irq when it has torn channels down.
TornDown(st) == ~st.exited /\ st.log.teardown # <<>> /\ st.log.teardown[1].had # <<>>

\* C10 as stated: after a handler that has found the base address again while
\* channels were open there are no channels, send_queue is empty and no client
\* has associations; connections and services are as before.
C10_NothingLeftAfterHandler ==
  \A st \in Runs :
     TornDown(st) =>
       /\ st.channels = <<>>
       /\ st.send_queue = <<>>
       /\ \A i \in 1..Len(st.connections) : st.connections[i].associations = <<>>
       /\ Len(st.connections) = Len(connections)
       /\ st.services = services

\* C10: close_all_logical_channels sends one MSG_RESET with its stream_id to the
\* client of every associated channel, and when it returns there are no channels,
\* send_queue is empty, no client has associations, and connections and services
\* are as before; the handler then goes on with the packets of the peer.
C10_TeardownResetsAll ==
  \A st \in Runs : \A t \in 1..Len(st.log.teardown) :
     /\ Len(st.log.teardown[t].msgs)
          = Cardinality({k \in 1..Len(st.log.teardown[t].had) :
                           st.log.teardown[t].had[k].association # Nullptr})
     /\ \A k \in 1..Len(st.log.teardown[t].had) :
           st.log.teardown[t].had[k].association # Nullptr
             => Cardinality({j \in 1..Len(st.log.teardown[t].msgs) :
                   /\ st.log.teardown[t].msgs[j].type = MSG_RESET
                   /\ st.log.teardown[t].msgs[j].cc = st.log.teardown[t].had[k].association
                   /\ st.log.teardown[t].msgs[j].stream_id
                        = st.log.teardown[t].had[k].stream_id}) = 1
     /\ st.log.teardown[t].channels = <<>>
     /\ st.log.teardown[t].send_queue = <<>>
     /\ \A i \in 1..Len(st.log.teardown[t].associations) :
           st.log.teardown[t].associations[i] = <<>>
     /\ st.log.teardown[t].connections = [i \in 1..Len(connections) |-> connections[i].id]
     /\ st.log.teardown[t].services = services

\* A channel of a client is open, a packet waits in send_queue, and the base
\* address is found again.
C10_Witness ==
  \E st \in Runs :
     /\ TornDown(st)
     /\ Len(st.log.teardown[1].msgs) >= 1
     /\ Len(st.log.teardown[1].had) >= 1
     /\ send_queue # <<>>

\* The PKT_CONNECT packets of IrqInputs that name a registered service on a channel
\* id that is free, in an interrupt without rediscovery.
ConnectsToRegistered ==
  {x \in IrqInputs :
     /\ ~BitSet(x[1], R_EVENT_BASE_ADDRESS)
     /\ Len(x[3]) = 1
     /\ x[3][1].type = PKT_CONNECT
     /\ Registered(x[3][1].data)
     /\ \A k \in 1..Len(channels) : channels[k].channel_id # x[3][1].channel_id}

\* The owner of the first service with the name.
OwnerOf(name) ==
  services[CHOOSE k \in 1..Len(services) :
             /\ services[k].name = name
             /\ \A j \in 1..(k - 1) : services[j].name # name].cc

\* C11: a PKT_CONNECT for a new channel id that names a registered service
\* associates the channel with the owner of the service, gives it the owner's
\* next_stream_id, adds 2 to that, and sends one MSG_CONNECT with the stream id and
\* the name; the k-th association made on a client has stream id 2k - 1, so the
\* stream ids of a client are odd and increase.
C11_StreamIdsOddAndIncreasing ==
  /\ \A i \in 1..Len(connections) :
        /\ connections[i].next_stream_id = 2 * connections[i].made + 1
        /\ \A k \in 1..Len(channels) :
              channels[k].association = connections[i].id
                => /\ channels[k].stream_id % 2 = 1
                   /\ channels[k].stream_id < connections[i].next_stream_id
  /\ IrqReady =>
       \A x \in ConnectsToRegistered :
          ~IrqRun(x).exited =>
             \E i \in 1..Len(connections) :
                /\ connections[i].id = OwnerOf(x[3][1].data)
                /\ IrqRun(x).connections[i].id = connections[i].id
                /\ IrqRun(x).connections[i].next_stream_id
                      = connections[i].next_stream_id + 2
                /\ IrqRun(x).connections[i].made = connections[i].made + 1
                /\ \E k \in 1..Len(IrqRun(x).channels) :
                      /\ IrqRun(x).channels[k].channel_id = x[3][1].channel_id
                      /\ IrqRun(x).channels[k].association = connections[i].id
                      /\ IrqRun(x).channels[k].stream_id
                            = 2 * (connections[i].made + 1) - 1
                      /\ IrqRun(x).channels[k].stream_id = connections[i].next_stream_id
                /\ Len(IrqRun(x).log.msgs) = 1
                /\ IrqRun(x).log.msgs[1].type = MSG_CONNECT
                /\ IrqRun(x).log.msgs[1].cc = connections[i].id
                /\ IrqRun(x).log.msgs[1].stream_id = connections[i].next_stream_id
                /\ IrqRun(x).log.msgs[1].data = x[3][1].data

\* The second association is made on a client: it gets stream id 3.
C11_Witness ==
  /\ IrqReady
  /\ \E x \in ConnectsToRegistered : \E i \in 1..Len(connections) :
        /\ connections[i].id = OwnerOf(x[3][1].data)
        /\ connections[i].made = 1
        /\ ~IrqRun(x).exited
        /\ IrqRun(x).log.msgs[1].stream_id = 3

\* The channel with the id in the result of a handler is there with this
\* association, or (gone) it is not there.
ChannelIs(st, channel_id, association) ==
  \E k \in 1..Len(st.channels) :
     /\ st.channels[k].channel_id = channel_id
     /\ st.channels[k].association = association
ChannelGone(st, channel_id) ==
  \A k \in 1..Len(st.channels) : st.channels[k].channel_id # channel_id

\* A PKT_EOS alone in an interrupt without rediscovery, on channel k.
PeerEos(x, k) ==
  /\ ~BitSet(x[1], R_EVENT_BASE_ADDRESS)
  /\ x[3] = <<[type |-> PKT_EOS, channel_id |-> channels[k].channel_id, data |-> <<>>]>>
  /\ ~IrqRun(x).exited

\* A MSG_EOS from the client of channel k on its stream, in an event that does
\* not end the connection.
ClientEos(x, k) ==
  /\ channels[k].association = connections[x[1]].id
  /\ Len(x[2].msgs) = 1
  /\ x[2].msgs[1].type = MSG_EOS
  /\ x[2].msgs[1].stream_id = channels[k].stream_id
  /\ ~ClientRun(x).exited
  /\ ClientRun(x).log.closes = <<>>

\* C12: a channel stays associated after the EOS of one side and is dissociated
\* when the EOS of the second side arrives, in either order; a record that has
\* been dissociated is never associated again, and it is there only as long as
\* its packet_queue holds packets.
C12_DissociatedAfterBothEos ==
  /\ \A k \in 1..Len(channels) :
        /\ channels[k].association # Nullptr
             => ~(channels[k].got_eos_from_ami /\ channels[k].got_eos_from_client)
        /\ channels[k].ex # Nullptr => channels[k].association = Nullptr
        /\ channels[k].association = Nullptr => channels[k].packet_queue # <<>>
  /\ IrqReady =>
       \A x \in IrqInputs : \A k \in 1..Len(channels) :
          /\ PeerEos(x, k)
          /\ channels[k].association # Nullptr
          /\ ~channels[k].got_eos_from_ami
          => IF channels[k].got_eos_from_client
             THEN \/ ChannelGone(IrqRun(x), channels[k].channel_id)
                  \/ ChannelIs(IrqRun(x), channels[k].channel_id, Nullptr)
             ELSE ChannelIs(IrqRun(x), channels[k].channel_id, channels[k].association)
  /\ ClientReady =>
       \A x \in ClientInputs : \A k \in 1..Len(channels) :
          /\ ClientEos(x, k)
          /\ ~channels[k].got_eos_from_client
          => IF channels[k].got_eos_from_ami
             THEN \/ ChannelGone(ClientRun(x), channels[k].channel_id)
                  \/ ChannelIs(ClientRun(x), channels[k].channel_id, Nullptr)
             ELSE ChannelIs(ClientRun(x), channels[k].channel_id, channels[k].association)

\* Two channels, each with the EOS of one side, get the EOS of the other side: one
\* the MSG_EOS of its client, one the PKT_EOS of the peer.  Each is dissociated, and
\* removed when its packet_queue is empty.
C12_Witness ==
  /\ IrqReady
  /\ ClientReady
  /\ \E x \in ClientInputs : \E k \in 1..Len(channels) :
        /\ ClientEos(x, k)
        /\ channels[k].got_eos_from_ami
        /\ ~channels[k].got_eos_from_client
        /\ ChannelGone(ClientRun(x), channels[k].channel_id)
        /\ \E j \in 1..Len(ClientRun(x).log.written) :
              ClientRun(x).log.written[j].type = PKT_EOS
  /\ \E x \in IrqInputs : \E k \in 1..Len(channels) :
        /\ PeerEos(x, k)
        /\ channels[k].association # Nullptr
        /\ channels[k].got_eos_from_client
        /\ ~channels[k].got_eos_from_ami
        /\ ChannelGone(IrqRun(x), channels[k].channel_id)
        /\ \E j \in 1..Len(IrqRun(x).log.msgs) : IrqRun(x).log.msgs[j].type = MSG_EOS

\* The PKT_CONNECT packets of IrqInputs that name a service that is neither
\* registered nor started on demand, on a channel id that is free, in an interrupt
\* without rediscovery.
ConnectsToUnknown ==
  {x \in IrqInputs :
     /\ ~BitSet(x[1], R_EVENT_BASE_ADDRESS)
     /\ Len(x[3]) = 1
     /\ x[3][1].type = PKT_CONNECT
     /\ ~Registered(x[3][1].data)
     /\ \A k \in 1..Len(on_demand_services) : on_demand_services[k] # x[3][1].data
     /\ \A k \in 1..Len(channels) : channels[k].channel_id # x[3][1].channel_id}

\* The packets a handler has written for a channel id.
WrittenFor(st, channel_id) ==
  SelectSeq(st.log.written, LAMBDA w : w.channel_id = channel_id)

\* The one packet of the refusal.
IsRefusal(p) == p.type = PKT_CONNECT_RESPONSE /\ p.data = <<CONNECT_UNKNOWN_SERVICE>>

\* C13: a PKT_CONNECT for a new channel id that names an unknown service does not
\* end the daemon, sends no message to any client, and puts one
\* PKT_CONNECT_RESPONSE with status 3 on the channel: it is written into the R2A
\* ring by the flush of the handler and the channel is erased, or it waits alone
\* in the packet_queue; the channel that waits is erased by the handler that writes
\* the packet.
C13_UnknownServiceRefused ==
  /\ IrqReady =>
       \A x \in ConnectsToUnknown :
          /\ ~IrqRun(x).exited
          /\ IrqRun(x).log.msgs = <<>>
          /\ IrqRun(x).connections = connections
          /\ \/ /\ Len(WrittenFor(IrqRun(x), x[3][1].channel_id)) = 1
                /\ IsRefusal(WrittenFor(IrqRun(x), x[3][1].channel_id)[1])
                /\ ChannelGone(IrqRun(x), x[3][1].channel_id)
             \/ /\ WrittenFor(IrqRun(x), x[3][1].channel_id) = <<>>
                /\ \E k \in 1..Len(IrqRun(x).channels) :
                      /\ IrqRun(x).channels[k].channel_id = x[3][1].channel_id
                      /\ IrqRun(x).channels[k].association = Nullptr
                      /\ Len(IrqRun(x).channels[k].packet_queue) = 1
                      /\ IsRefusal(IrqRun(x).channels[k].packet_queue[1])
  /\ \A st \in Runs : \A k \in 1..Len(channels) :
        /\ ~st.exited
        /\ st.log.teardown = <<>>
        /\ channels[k].association = Nullptr
        /\ Len(channels[k].packet_queue) = 1
        /\ IsRefusal(channels[k].packet_queue[1])
        /\ WrittenFor(st, channels[k].channel_id) # <<>>
        => /\ IsRefusal(WrittenFor(st, channels[k].channel_id)[1])
           /\ ChannelGone(st, channels[k].channel_id)

\* The refusal is written at once and the channel is erased.
C13_Witness ==
  /\ IrqReady
  /\ connections # <<>>
  /\ \E x \in ConnectsToUnknown :
        /\ Len(IrqRun(x).log.written) = 1
        /\ IsRefusal(IrqRun(x).log.written[1])
        /\ ChannelGone(IrqRun(x), x[3][1].channel_id)

\* The refusal has waited for room in the R2A ring; a handler writes it and the
\* channel is erased.
C13_WitnessWaiting ==
  \E st \in Runs : \E k \in 1..Len(channels) :
     /\ ~st.exited
     /\ st.log.teardown = <<>>
     /\ Len(channels[k].packet_queue) = 1
     /\ IsRefusal(channels[k].packet_queue[1])
     /\ WrittenFor(st, channels[k].channel_id) # <<>>
     /\ ChannelGone(st, channels[k].channel_id)

\* A MSG_DATA from the client of channel k on its stream, in an event that does
\* not end the connection.
ClientData(x, k) ==
  /\ channels[k].association = connections[x[1]].id
  /\ Len(x[2].msgs) = 1
  /\ x[2].msgs[1].type = MSG_DATA
  /\ x[2].msgs[1].stream_id = channels[k].stream_id
  /\ ~ClientRun(x).exited
  /\ ClientRun(x).log.closes = <<>>

\* Type and payload of the packets of a queue.
Plain(pq) == [j \in 1..Len(pq) |-> [type |-> pq[j].type, data |-> pq[j].data]]

\* The packets of a channel after a handler, in order: those the handler has
\* written into the R2A ring, then those left in the packet_queue.
ChannelOut(st, channel_id) ==
  Plain(WrittenFor(st, channel_id))
  \o (IF ChannelGone(st, channel_id) THEN <<>>
      ELSE Plain(st.channels[ChanIdx(st, channel_id)].packet_queue))

\* C14: every MSG_DATA on a stream id with a live association puts exactly one
\* PKT_DATA on the channel, after the packets already there, and the payload of the
\* packet has the length and the bytes of the payload of the message, whatever the
\* length of the message.
C14_DataPacketCarriesPayload ==
  ClientReady =>
    \A x \in ClientInputs : \A k \in 1..Len(channels) :
       ClientData(x, k) =>
         ChannelOut(ClientRun(x), channels[k].channel_id)
           = Plain(channels[k].packet_queue)
             \o <<[type |-> PKT_DATA, data |-> x[2].msgs[1].payload]>>

\* A MSG_DATA of 256 bytes on a live association becomes a PKT_DATA without
\* payload.
C14_Witness ==
  /\ ClientReady
  /\ \E x \in ClientInputs : \E k \in 1..Len(channels) :
        /\ ClientData(x, k)
        /\ x[2].msgs[1].length = 256
        /\ ChannelOut(ClientRun(x), channels[k].channel_id)
             = Plain(channels[k].packet_queue) \o <<[type |-> PKT_DATA, data |-> <<>>]>>

\* C14, for the lengths that fit the uint8_t length of create_and_enqueue_packet:
\* a MSG_DATA of less than 256 bytes on a live association puts exactly one
\* PKT_DATA with the same payload on the channel, and a longer one puts exactly
\* one PKT_DATA with the length of the message modulo 256.
C14_DataPacketLengthModulo256 ==
  ClientReady =>
    \A x \in ClientInputs : \A k \in 1..Len(channels) :
       ClientData(x, k) =>
         ChannelOut(ClientRun(x), channels[k].channel_id)
           = Plain(channels[k].packet_queue)
             \o <<[type |-> PKT_DATA,
                   data |-> SubSeq(x[2].msgs[1].payload, 1, x[2].msgs[1].length % 256)]>>

\* The packets of CodecSequences fit the room the ring has before the flush.
CodecFits == SumBytes(codec.packets) <= 255 - ((codec.tail - codec.head) % 256)

C16_BytesGoInAtTail ==
  codec.stage \in {"decode", "done"} =>
    LET n == Len(codec.send_buf)
        t == codec.tail
    IN /\ n > 0 =>
            /\ \A i \in 0..(n - 1) :
                 codec.sram[CodecBase + 260 + ((t + i) % 256)] = codec.send_buf[i + 1]
            /\ Len(codec.bus) \in {1, 2}
            /\ codec.bus[1].address = CodecBase + 260 + t
            /\ Len(codec.bus) = 1 =>
                 Len(codec.bus[1].data) = n /\ t + n <= 256
            /\ Len(codec.bus) = 2 =>
                 /\ Len(codec.bus[1].data) = 256 - t
                 /\ codec.bus[2].address = CodecBase + 260
                 /\ Len(codec.bus[2].data) = n - (256 - t)
            /\ codec.new_tail = (t + n) % 256
            /\ BitSet(codec.updated, A_EVENT_R2A_TAIL)
            /\ codec.ret
       /\ n = 0 =>
            /\ codec.bus = <<>>
            /\ codec.new_tail = t
            /\ codec.updated = 0
            /\ ~codec.ret
       /\ t = 200 /\ n = 150 =>
            /\ Len(codec.bus) = 2
            /\ codec.bus[1].address = CodecBase + 260 + 200
            /\ Len(codec.bus[1].data) = 56
            /\ codec.bus[2].address = CodecBase + 260 + 0
            /\ Len(codec.bus[2].data) = 94
            /\ codec.new_tail = 94

\* 150 bytes have been written from R2A_TAIL = 200.
C16_Witness ==
  /\ codec.stage = "decode"
  /\ codec.tail = 200
  /\ Len(codec.send_buf) = 150
  /\ Len(codec.bus) = 2
  /\ codec.new_tail = 94

\* C17: with a peer that keeps consuming the R2A ring and raising its interrupt,
\* the send queue never stays blocked forever: again and again the send queue is
\* empty or the R2A ring holds a packet the daemon has written since the peer last
\* emptied it.
C17_SendQueueNeverBlocked == []<>(send_queue = <<>> \/ r2a_packets > 0)

\* A packet with 253 bytes of payload is at the front of the send queue, and the
\* daemon has seen the R2A ring empty.
C17_Witness ==
  /\ pc = "loop"
  /\ send_queue # <<>>
  /\ Len(FrontPacket(channels[ChanIdx([channels |-> channels], Head(send_queue))]).data) = 253
  /\ r2a_unconsumed = 0
  /\ channel_status[R2A_HEAD_OFFSET + 1] = channel_status[R2A_TAIL_OFFSET + 1]
  /\ sram_status[R2A_HEAD_OFFSET + 1] = channel_status[R2A_HEAD_OFFSET + 1]

\* A packet that no R2A ring has room for is in a packet_queue.
LongPacketQueued ==
  \E k \in 1..Len(channels) : \E j \in 1..Len(channels[k].packet_queue) :
     3 + Len(channels[k].packet_queue[j].data) > 255

\* C17, for the packets a ring has room for: with a peer that keeps consuming the
\* R2A ring and raising its interrupt, the send queue is blocked for ever only
\* by a packet of more than 255 bytes with its header.
C17_BlockedOnlyByLongPacket ==
  []<>(send_queue = <<>> \/ r2a_packets > 0 \/ LongPacketQueued)

\* C18: after SIGTERM the main loop terminates in the end, whatever interrupts the
\* peer raises.
C18_TerminatesAfterSigterm == shutting_down ~> pc \in {"done", "exit"}

\* The daemon is shutting down with a channel left, and the timeout of epoll_pwait
\* has begun to pass.
C18_Witness ==
  /\ pc = "loop"
  /\ shutting_down
  /\ channels # <<>>
  /\ timeout < MaxWait

\* C18, step by step: SIGTERM ends the main loop at once when it leaves no channel
\* and starts the shutdown, with the whole timeout, when it leaves one; while
\* shutting down, the main loop ends at the timeout, at a SIGTERM or at an
\* interrupt that leaves no channel, and an interrupt that leaves a channel
\* starts the whole timeout again.
C18_ShutdownSteps ==
  [][/\ ~shutting_down /\ pc = "loop" /\ pc' = "done" =>
          ClientReady /\ SigtermRun.channels = <<>>
     /\ ~shutting_down /\ shutting_down' =>
          /\ ClientReady
          /\ SigtermRun.channels # <<>>
          /\ pc' = "loop"
          /\ timeout' = MaxWait
     /\ shutting_down /\ pc' = "done" =>
          \/ timeout = 0
          \/ ClientReady /\ SigtermRun.channels = <<>>
          \/ /\ IrqReady
             /\ ~first_gpio_event
             /\ \E x \in IrqInputs : ~IrqRun(x).exited /\ IrqRun(x).channels = <<>>
     /\ shutting_down /\ IrqReady /\ ~first_gpio_event =>
          \A x \in IrqInputs :
             GpioEventOn(x) =>
               IF IrqRun(x).exited THEN pc' = "exit"
               ELSE IF IrqRun(x).channels = <<>> THEN pc' = "done"
               ELSE pc' = "loop" /\ shutting_down' /\ timeout' = MaxWait]_vars

\* C19 as stated: on SIGTERM a MSG_RESET for its stream is written to the client of
\* every channel that is associated at that moment.
C19_FinalResetToClients ==
  ClientReady =>
    \A k \in 1..Len(channels) :
       channels[k].association # Nullptr =>
         \E j \in 1..Len(SigtermRun.log.msgs) :
            /\ SigtermRun.log.msgs[j].type = MSG_RESET
            /\ SigtermRun.log.msgs[j].cc = channels[k].association
            /\ SigtermRun.log.msgs[j].stream_id = channels[k].stream_id

\* C19, as the code has it: on SIGTERM no message is written to any client; every
\* connection is closed; for every channel that is associated at that moment the
\* pending packets are discarded and one PKT_RESET is enqueued for the peer, and
\* the pending packets of the other channels are kept; the flush that follows
\* writes what the R2A ring has room for, and a channel whose packets are all
\* written is erased.
C19_SigtermResetsTowardsPeer ==
  ClientReady =>
    /\ ~SigtermRun.exited
    /\ SigtermRun.log.msgs = <<>>
    /\ SigtermRun.connections = <<>>
    /\ SigtermRun.services = <<>>
    /\ Len(SigtermRun.log.closes) = Len(connections)
    /\ \A i \in 1..Len(connections) :
          /\ SigtermRun.log.closes[i].cc = connections[i].id
          /\ SigtermRun.log.closes[i].had = connections[i].associations
    /\ \A k \in 1..Len(channels) :
          /\ ChannelOut(SigtermRun, channels[k].channel_id)
               = IF channels[k].association # Nullptr
                 THEN <<[type |-> PKT_RESET, data |-> <<>>]>>
                 ELSE Plain(channels[k].packet_queue)
          /\ ~ChannelGone(SigtermRun, channels[k].channel_id) =>
               /\ ChannelIs(SigtermRun, channels[k].channel_id, Nullptr)
               /\ SigtermRun.channels[ChanIdx(SigtermRun, channels[k].channel_id)].packet_queue
                    # <<>>
    /\ SigtermRun.send_queue # <<>> =>
         R2ALeft(SigtermRun)
           < PacketBytes(FrontPacket(
               SigtermRun.channels[ChanIdx(SigtermRun, Head(SigtermRun.send_queue))]))

\* SIGTERM with two connections, one of them with an associated channel: the
\* PKT_RESET of the channel is written and no message goes to a client.
C19_Witness ==
  /\ ClientReady
  /\ Len(connections) = 2
  /\ \E k \in 1..Len(channels) :
        /\ channels[k].association # Nullptr
        /\ WrittenFor(SigtermRun, channels[k].channel_id)
             = <<[channel_id |-> channels[k].channel_id, type |-> PKT_RESET,
                  length |-> 0, data |-> <<>>, ahead |-> 0]>>
        /\ ChannelGone(SigtermRun, channels[k].channel_id)
  /\ SigtermRun.log.msgs = <<>>

\* SIGTERM with an associated channel that has a pending packet while the R2A ring
\* has no room: the pending packet is discarded and the PKT_RESET waits.
C19_WitnessPending ==
  /\ ClientReady
  /\ \E k \in 1..Len(channels) :
        /\ channels[k].association # Nullptr
        /\ channels[k].packet_queue # <<>>
        /\ WrittenFor(SigtermRun, channels[k].channel_id) = <<>>
        /\ ~ChannelGone(SigtermRun, channels[k].channel_id)

\* C20 as stated: in the handler in which a write to a client socket fails with
\* ECONNRESET, the connection is closed.
C20_ResetClosesAtOnce ==
  \A st \in Runs : \A j \in 1..Len(st.log.msgs) :
     st.log.msgs[j].fate = "dropped" =>
       \E c \in 1..Len(st.log.closes) : st.log.closes[c].cc = st.log.msgs[j].cc

\* C20, as the code has it: ECONNRESET never ends the process: a handler whose
\* writes fail with it exits only if it exits when they succeed.  When the write
\* of the EPOLLOUT drain fails with it, the connection is closed in that handler
\* and the channels it had are reset and dissociated.  When the write of
\* create_and_send_msg fails with it, the message is dropped and the connection
\* stays open, and no connection is closed in that handler.
C20_ResetClosesInDrainOnly ==
  /\ \A st \in Runs : \A j \in 1..Len(st.log.msgs) :
        st.log.msgs[j].fate = "dropped" /\ ~st.exited =>
          /\ st.log.closes = <<>>
          /\ \E i \in 1..Len(st.connections) :
                /\ st.connections[i].id = st.log.msgs[j].cc
                /\ st.connections[i].message_queue = <<>>
  /\ IrqReady =>
       \A x \in IrqInputs :
          x[4] = "reset" =>
            (IrqRun(x).exited <=> IrqRun(<<x[1], x[2], x[3], "ok">>).exited)
  /\ ClientReady =>
       \A x \in ClientInputs :
          x[3] = "reset" =>
            (ClientRun(x).exited <=> ClientRun(<<x[1], x[2], "ok">>).exited)
  /\ ClientReady =>
       \A x \in ClientInputs :
          x[3] = "reset" /\ x[2].out /\ ~x[2].err /\ ~ClientRun(x).exited =>
            /\ Len(ClientRun(x).log.closes) = 1
            /\ ClientRun(x).log.closes[1].cc = connections[x[1]].id
            /\ \A i \in 1..Len(ClientRun(x).connections) :
                  ClientRun(x).connections[i].id # connections[x[1]].id
            /\ \A h \in 1..Len(ClientRun(x).log.closes[1].had) :
                  \/ ChannelGone(ClientRun(x), ClientRun(x).log.closes[1].had[h])
                  \/ ChannelIs(ClientRun(x), ClientRun(x).log.closes[1].had[h], Nullptr)
            /\ \A k \in 1..Len(ClientRun(x).channels) :
                  ClientRun(x).channels[k].association # connections[x[1]].id
  /\ ClientReady =>
       \A x \in ClientInputs :
          x[3] = "reset" /\ x[2].out /\ ~x[2].err /\ x[2].msgs = <<>> =>
            ~ClientRun(x).exited

\* A MSG_DATA from the peer for an associated channel is dropped because write()
\* fails with ECONNRESET, and the connection keeps its association.
C20_Witness ==
  /\ IrqReady
  /\ \E x \in IrqInputs :
        /\ x[4] = "reset"
        /\ Len(IrqRun(x).log.msgs) = 1
        /\ IrqRun(x).log.msgs[1].type = MSG_DATA
        /\ IrqRun(x).log.msgs[1].fate = "dropped"
        /\ IrqRun(x).log.closes = <<>>
        /\ IrqRun(x).connections = connections
        /\ connections[1].associations # <<>>

\* write() fails with ECONNRESET in the EPOLLOUT drain of a connection that has
\* an associated channel: the connection is closed and the channel is reset.
C20_WitnessDrain ==
  /\ ClientReady
  /\ \E x \in ClientInputs :
        /\ x[3] = "reset"
        /\ x[2].out
        /\ x[2].msgs = <<>>
        /\ connections[x[1]].associations # <<>>
        /\ Len(ClientRun(x).log.closes) = 1
        /\ ClientRun(x).connections = <<>>

(***************************************************************************)
(* C21                                                                     *)
(***************************************************************************)
RECURSIVE WellFramed(_, _)
\* From position p on, the bytes are whole packets: each 3-byte header and the
\* payload it declares end within the bytes.
WellFramed(bytes, p) ==
  IF p = Len(bytes) THEN TRUE
  ELSE IF p + 3 > Len(bytes) \/ p + 3 + bytes[p + 1] > Len(bytes) THEN FALSE
  ELSE WellFramed(bytes, p + 3 + bytes[p + 1])

\* C21: every protocol violation of the peer ends the daemon with a fatal
\* error: a handler that has drained bytes from the A2R ring in which a
\* packet's header or declared payload runs past the end of the drained bytes
\* has exited, and so has one that has found a PKT_CONNECT for a channel id that
\* has a channel record.
C21_MalformedFrameFatal ==
  codec.stage = "received" =>
    /\ ~WellFramed(codec.bytes, 0) => codec.exited
    /\ codec.bytes = <<1, PKT_CONNECT, 1, 97>> => codec.exited

\* C21, the case reached: bytes whose last packet declares more payload than was
\* drained have been received, and the packet has gone to the client as MSG_DATA
\* with bytes that the peer never sent.
C21_Witness ==
  /\ codec.stage = "received"
  /\ codec.bytes = <<3, PKT_DATA, 1, 7>>
  /\ ~codec.exited
  /\ codec.msgs = <<[type |-> MSG_DATA, stream_id |-> 1,
                     data |-> <<7, codec.stale, codec.stale>>]>>

\* C21, what the code does: a PKT_CONNECT on a channel id that has a record is
\* fatal; a malformed frame is not detected: it is handled as the packets that
\* the walk finds with the bytes recv_buf held before, and it is fatal only
\* where those packets are (a PKT_CONNECT on channel 1 among them).
C21_OnlyConnectOnExistingChannelFatal ==
  codec.stage = "received" =>
    /\ codec.exited <=>
         \E k \in 1..Len(codec.handed) :
            /\ codec.handed[k].type = PKT_CONNECT
            /\ \/ codec.handed[k].channel_id = 1
               \/ \E j \in 1..(k - 1) :
                     /\ codec.handed[j].type = PKT_CONNECT
                     /\ codec.handed[j].channel_id = codec.handed[k].channel_id
                     /\ codec.handed[j].data = NameA
    /\ codec.bytes = <<1, PKT_CONNECT, 1, 97>> => codec.exited

(***************************************************************************)
(* C22                                                                     *)
(***************************************************************************)
\* The two reads are equal and their low bit is 1.
ValidReads(ba1, ba2) == ba1 = ba2 /\ ba1 % 2 = 1

\* Values of CMEM 0..4: no address, addresses with and without the valid bit,
\* the largest 20-bit value.
CmemValues ==
  {CmemValue(n) : n \in {<<0, 0, 0, 0, 0>>, <<0, 1, 0, 0, 0>>, <<1, 1, 0, 0, 0>>,
                         <<1, 0, 0, 0, 4>>, <<15, 15, 15, 15, 15>>}}

\* handle_a314_irq on input x, with the packets b in the A2R ring.
IrqRunWith(x, b) ==
  handle_a314_irq(State(x[4], b, BitSet(x[1], R_EVENT_BASE_ADDRESS)),
                  x[1], x[2][1], x[2][2])

C22_WitnessAgain ==
  /\ pc = "loop"
  /\ ~first_gpio_event
  /\ ~have_base_address
  /\ connections # <<>>

(***************************************************************************)
(* C23                                                                     *)
(***************************************************************************)
\* The handler has called close_all_logical_channels and read_base_address:
\* the teardown is in the log and have_base_address tells what was read.
Rediscovered(st, x) ==
  /\ Len(st.log.teardown) = 1
  /\ st.have_base_address <=> ValidReads(x[2][1], x[2][2])

\* C23: every call of handle_a314_irq made while no base address is cached, the
\* first one of main_loop included, attempts rediscovery, whatever R_EVENTS
\* reads, 0 included.
C23_RediscoveryWhateverEvents ==
  IrqReady /\ ~have_base_address =>
    \A x \in IrqInputs : IrqRun(x).exited \/ Rediscovered(IrqRun(x), x)

\* C23, as the code has it: without a base address the handler rediscovers when
\* R_EVENTS reads a value other than 0; when it reads 0 the handler returns at
\* once, with nothing torn down, nothing read and no base address, in the first
\* call of main_loop as in the later ones.
C23_RediscoveryOnEventsOnly ==
  IrqReady /\ ~have_base_address =>
    \A x \in IrqInputs :
       \E st \in {IrqRun(x)} :
          /\ x[1] # 0 => st.exited \/ Rediscovered(st, x)
          /\ x[1] = 0 => /\ st = State(x[4], x[3], FALSE)
                         /\ ~st.have_base_address
                         /\ st.log.teardown = <<>>

\* C23, the case reached: in the loop without a base address, R_EVENTS reads 0
\* while CMEM holds a valid base address, and the handler leaves the daemon
\* without it.
C23_Witness ==
  /\ pc = "loop"
  /\ IrqReady
  /\ ~have_base_address
  /\ \E x \in IrqInputs :
        /\ x[1] = 0
        /\ ValidReads(x[2][1], x[2][2])
        /\ ~IrqRun(x).have_base_address

\* C23, the first call: main_loop has entered its loop without a base address.
C23_WitnessFirstCall ==
  /\ pc = "loop"
  /\ first_gpio_event
  /\ ~have_base_address

(***************************************************************************)
(* C24                                                                     *)
(***************************************************************************)
\* The MSG_RESET messages a handler has made for a client and a stream id.
ResetsFor(st, cc, stream_id) ==
  SelectSeq(st.log.msgs, LAMBDA e : e.type = MSG_RESET /\ e.cc = cc
                                    /\ e.stream_id = stream_id)

\* What handling PKT_RESET for channel ch of the state before leaves in st.
ResetDone(st, ch) ==
  /\ ChannelGone(st, ch.channel_id)
  /\ \A k \in 1..Len(st.send_queue) : st.send_queue[k] # ch.channel_id
  /\ \E j \in 1..Len(st.log.erased) :
        /\ st.log.erased[j].channel_id = ch.channel_id
        /\ st.log.erased[j].association = Nullptr
        /\ st.log.erased[j].queued = 0
  /\ \A i \in 1..Len(st.connections) :
        \A k \in 1..Len(st.connections[i].associations) :
           st.connections[i].associations[k] # ch.channel_id
  /\ IF ch.association # Nullptr
     THEN /\ Len(ResetsFor(st, ch.association, ch.stream_id)) = 1
          /\ Len(st.log.msgs) = 1
     ELSE st.log.msgs = <<>>

\* The interrupts that bring one PKT_RESET for a channel that has a record, and
\* no other packet for that channel.
ResetsOfChannel(k) ==
  {x \in IrqInputs :
     /\ ~BitSet(x[1], R_EVENT_BASE_ADDRESS)
     /\ \E j \in 1..Len(x[3]) :
           /\ x[3][j].type = PKT_RESET
           /\ x[3][j].channel_id = channels[k].channel_id
           /\ \A i \in 1..Len(x[3]) : i # j => x[3][i].channel_id # channels[k].channel_id}

\* C24: PKT_RESET for a channel that has a record discards the queued packets
\* of the channel and takes the channel out of send_queue; an associated channel
\* is dissociated and its client gets exactly one MSG_RESET with the stream id;
\* associated or not, the record is gone when the packet has been handled; and
\* the handler writes none of the discarded packets to the R2A ring.
C24_ResetDiscardsAndDissociates ==
  /\ \A k \in 1..Len(channels) : \A wr \in WriteResults :
        \E st \in {handle_received_pkt(State(wr, <<>>, FALSE), PKT_RESET,
                                       channels[k].channel_id, <<>>)} :
           st.exited \/ ResetDone(st, channels[k])
  /\ IrqReady =>
       \A k \in 1..Len(channels) : \A x \in ResetsOfChannel(k) :
          \E st \in {IrqRun(x)} :
             st.exited
             \/ /\ ChannelGone(st, channels[k].channel_id)
                /\ \A j \in 1..Len(st.send_queue) :
                      st.send_queue[j] # channels[k].channel_id
                /\ WrittenFor(st, channels[k].channel_id) = <<>>
                /\ channels[k].association # Nullptr =>
                     Len(ResetsFor(st, channels[k].association,
                                   channels[k].stream_id)) = 1

\* C24, the case reached: an associated channel with a packet waiting in its
\* queue gets PKT_RESET.
C24_Witness ==
  /\ IrqReady
  /\ \E k \in 1..Len(channels) :
        /\ channels[k].association # Nullptr
        /\ channels[k].packet_queue # <<>>
        /\ \E x \in ResetsOfChannel(k) : ~IrqRun(x).exited

\* C24, the other case reached: a channel without association, with a packet
\* waiting, gets PKT_RESET.
C24_WitnessUnassociated ==
  /\ IrqReady
  /\ \E k \in 1..Len(channels) :
        /\ channels[k].association = Nullptr
        /\ channels[k].packet_queue # <<>>
        /\ \E x \in ResetsOfChannel(k) : ~IrqRun(x).exited

(***************************************************************************)
(* C25                                                                     *)
(***************************************************************************)
\* The types of the messages that name a stream.
StreamMessageTypes == {MSG_CONNECT_RESPONSE, MSG_DATA, MSG_EOS, MSG_RESET}

\* Channel k is associated with connection i on stream id s.
StreamOf(i, k, s) ==
  channels[k].association = connections[i].id /\ channels[k].stream_id = s

\* EPOLLIN events that bring one message and end neither the connection nor
\* drain its message_queue.
PlainReads(i) ==
  {x \in ClientInputs :
     /\ x[1] = i
     /\ ~x[2].err /\ x[2].inp /\ ~x[2].out
     /\ Len(x[2].msgs) = 1
     /\ x[2].end = "eagain"}

\* C25: MSG_RESET from the client of an associated stream id dissociates the
\* channel, discards every packet queued on it and leaves exactly one PKT_RESET
\* in its packet_queue; that packet is the last one written for the channel, and
\* wherever a PKT_RESET is queued it is the last packet of its queue.  A stream
\* message that names a stream id the client has no association for changes
\* nothing (channels, queues, services, connections) and produces no message;
\* the client stays connected.
C25_ClientResetLeavesOnePktReset ==
  /\ \A i \in 1..Len(connections) : \A m \in ClientMessages :
        \E s0 \in {State("ok", <<>>, FALSE)} :
        \E st \in {handle_received_message(s0, connections[i].id, m)} :
           /\ \A k \in 1..Len(channels) :
                 m.type = MSG_RESET /\ StreamOf(i, k, m.stream_id) =>
                   \E c \in {ChanIdx(st, channels[k].channel_id)} :
                      /\ c # 0
                      /\ st.channels[c].association = Nullptr
                      /\ st.channels[c].stream_id = 0
                      /\ Plain(st.channels[c].packet_queue)
                           = <<[type |-> PKT_RESET, data |-> <<>>]>>
                      /\ Len(SelectSeq(st.send_queue,
                                       LAMBDA q : q = channels[k].channel_id)) = 1
                      /\ \A j \in 1..Len(st.connections[i].associations) :
                            st.connections[i].associations[j] # channels[k].channel_id
                      /\ st.log.msgs = <<>>
           /\ m.type \in StreamMessageTypes
              /\ (\A k \in 1..Len(channels) : ~StreamOf(i, k, m.stream_id))
              => st = s0
  /\ ClientReady =>
       \A i \in 1..Len(connections) : \A x \in PlainReads(i) :
          \E st \in {ClientRun(x)} :
             /\ \A k \in 1..Len(channels) :
                   x[2].msgs[1].type = MSG_RESET
                   /\ StreamOf(i, k, x[2].msgs[1].stream_id) =>
                     /\ ~st.exited
                     /\ ChannelOut(st, channels[k].channel_id)
                          = <<[type |-> PKT_RESET, data |-> <<>>]>>
                     /\ WrittenFor(st, channels[k].channel_id) # <<>> =>
                          ChannelGone(st, channels[k].channel_id)
             /\ x[2].msgs[1].type \in StreamMessageTypes
                /\ (\A k \in 1..Len(channels) : ~StreamOf(i, k, x[2].msgs[1].stream_id))
                => /\ ~st.exited
                   /\ st.log.closes = <<>>
                   /\ st.log.msgs = <<>>
                   /\ ConnIdx(st, connections[i].id) = i
                   /\ st.services = services
                   /\ Len(st.channels) + Len(st.log.erased) = Len(channels)
  /\ \A k \in 1..Len(channels) : \A j \in 1..Len(channels[k].packet_queue) :
        channels[k].packet_queue[j].type = PKT_RESET =>
          /\ j = Len(channels[k].packet_queue)
          /\ channels[k].association = Nullptr

\* C25, the case reached: the client of an associated channel with a packet
\* waiting in its queue sends MSG_RESET for the stream.
C25_Witness ==
  /\ ClientReady
  /\ \E i \in 1..Len(connections) : \E k \in 1..Len(channels) :
     \E x \in PlainReads(i) :
        /\ channels[k].packet_queue # <<>>
        /\ x[2].msgs[1].type = MSG_RESET
        /\ StreamOf(i, k, x[2].msgs[1].stream_id)
        /\ ~ClientRun(x).exited

\* C25, the other case reached: a client that has an association sends MSG_RESET
\* for a stream id it has none for.
C25_WitnessUnknownStream ==
  /\ ClientReady
  /\ \E i \in 1..Len(connections) : \E x \in PlainReads(i) :
        /\ connections[i].associations # <<>>
        /\ x[2].msgs[1].type = MSG_RESET
        /\ \A k \in 1..Len(channels) : ~StreamOf(i, k, x[2].msgs[1].stream_id)
        /\ ConnIdx(ClientRun(x), connections[i].id) = i

(***************************************************************************)
(* C26                                                                     *)
(***************************************************************************)
\* The bytes of the queued messages that are still to be written.
Unwritten(mq) ==
  Concat([j \in 1..Len(mq) |-> SubSeq(mq[j].data, mq[j].pos + 1, Len(mq[j].data))])

\* C26: the bytes a client socket has taken, followed by the unwritten bytes of
\* the queued messages, are the messages of the connection in the order of
\* their creation, each whole and in one piece, whatever parts write() takes
\* and whenever it fails with EAGAIN; only the front message of message_queue
\* is partly written, and no queued message is complete.
C26_SocketBytesAreMessagesInOrder ==
  codec.stage = "sock" =>
    /\ codec.out \o Unwritten(codec.message_queue) = Concat(codec.created)
    /\ \A j \in 1..Len(codec.message_queue) :
          /\ codec.message_queue[j].pos < Len(codec.message_queue[j].data)
          /\ j > 1 => codec.message_queue[j].pos = 0

\* C26, the step: a message made while message_queue is not empty puts no byte
\* on the socket, and every step only adds bytes to those already written.
C26_QueuedDataFirst ==
  [][codec.stage = "sock" =>
       /\ Len(codec'.out) >= Len(codec.out)
       /\ SubSeq(codec'.out, 1, Len(codec.out)) = codec.out
       /\ codec.message_queue # <<>> /\ codec'.created # codec.created =>
            codec'.out = codec.out]_vars

\* C26, the case reached: two different messages are out to the last byte and
\* the third one, at the front of message_queue, is written in part.
C26_Witness ==
  /\ codec.stage = "sock"
  /\ Len(codec.created) = MaxSockMsgs
  /\ codec.message_queue # <<>>
  /\ codec.message_queue[1].pos > 0
  /\ codec.message_queue[1].data = codec.created[3]
  /\ Len(codec.out) > Len(codec.created[1]) + Len(codec.created[2])
  /\ codec.created[1] # codec.created[2]

(***************************************************************************)
(* C27                                                                     *)
(***************************************************************************)
\* What a handler that has returned leaves: no event to post, and with a base
\* address the R2A_TAIL and A2R_HEAD of the SRAM are those in memory.
StatusPosted(st) ==
  /\ st.channel_status_updated = 0
  /\ st.have_base_address =>
       /\ st.sram_status[R2A_TAIL_OFFSET + 1] = st.channel_status[R2A_TAIL_OFFSET + 1]
       /\ st.sram_status[A2R_HEAD_OFFSET + 1] = st.channel_status[A2R_HEAD_OFFSET + 1]

\* The masks a handler has written to A_EVENTS: none when it has neither written
\* to R2A (sent) nor drained A2R (rcvd), else one mask with exactly their bits.
MaskPosted(st, sent, rcvd) ==
  IF ~sent /\ ~rcvd THEN st.log.posted = <<>>
  ELSE /\ Len(st.log.posted) = 1
       /\ st.log.posted[1] = (IF sent THEN A_EVENT_R2A_TAIL ELSE 0)
                             + (IF rcvd THEN A_EVENT_A2R_HEAD ELSE 0)

\* C27: every advance of R2A_TAIL or A2R_HEAD is posted in the handler that
\* makes it.  When a handler returns the mask of events to post is 0 and the
\* SRAM holds the R2A_TAIL and A2R_HEAD of the daemon; the handler has written
\* to A_EVENTS a mask with A_EVENT_R2A_TAIL exactly if it has written bytes to
\* the R2A ring and A_EVENT_A2R_HEAD exactly if it has drained the A2R ring.
C27_AdvancesPostedInHandler ==
  /\ channel_status_updated = 0
  /\ have_base_address =>
       /\ sram_status[R2A_TAIL_OFFSET + 1] = channel_status[R2A_TAIL_OFFSET + 1]
       /\ sram_status[A2R_HEAD_OFFSET + 1] = channel_status[A2R_HEAD_OFFSET + 1]
  /\ IrqReady =>
       \A x \in IrqInputs : \E st \in {IrqRun(x)} :
          ~st.exited =>
            /\ StatusPosted(st)
            /\ MaskPosted(st, st.log.written # <<>>,
                          x[3] # <<>> /\ st.a2r = <<>>)
            /\ st.log.written # <<>> <=>
                 st.channel_status[R2A_TAIL_OFFSET + 1]
                   # State(x[4], x[3], BitSet(x[1], R_EVENT_BASE_ADDRESS))
                       .sram_status[R2A_TAIL_OFFSET + 1]
            /\ x[3] # <<>> /\ st.have_base_address => st.a2r = <<>>
  /\ ClientReady =>
       /\ \A x \in ClientInputs : \E st \in {ClientRun(x)} :
             ~st.exited =>
               StatusPosted(st) /\ MaskPosted(st, st.log.written # <<>>, FALSE)
       /\ \E st \in {SigtermRun} :
             ~st.exited =>
               StatusPosted(st) /\ MaskPosted(st, st.log.written # <<>>, FALSE)

\* C27, the case reached: an interrupt handler drains the A2R ring and writes a
\* packet to the R2A ring, and posts both events in one mask.
C27_Witness ==
  /\ IrqReady
  /\ \E x \in IrqInputs :
        /\ x[3] # <<>>
        /\ ~IrqRun(x).exited
        /\ IrqRun(x).log.written # <<>>
        /\ IrqRun(x).log.posted = <<A_EVENT_R2A_TAIL + A_EVENT_A2R_HEAD>>

\* C27, the case reached: the handler of a client event writes a packet and
\* posts A_EVENT_R2A_TAIL alone.
C27_WitnessClient ==
  /\ ClientReady
  /\ \E x \in ClientInputs :
        /\ ~ClientRun(x).exited
        /\ ClientRun(x).log.posted = <<A_EVENT_R2A_TAIL>>

(***************************************************************************)
(* C28                                                                     *)
(***************************************************************************)
\* C28: every bus transfer, those of MSG_READ_MEM_REQ and MSG_WRITE_MEM_REQ with
\* the length the client has chosen included, is of at most 65536 bytes, command
\* header and data together: the size of the transfer buffers.
C28_TransfersWithinBuffers ==
  /\ \A n \in OwnTransfers : U32Leq(n, BufSize)
  /\ codec.stage = "done" =>
       /\ U32Leq(codec.transfer, BufSize)
       /\ U32Leq(codec.filled, BufSize)

\* C28, the case reached: a MSG_READ_MEM_REQ with length 65533 has made a
\* transfer of 65537 bytes.
C28_Witness ==
  /\ codec.stage = "done"
  /\ codec.type = MSG_READ_MEM_REQ
  /\ codec.length = <<0, 65533>>
  /\ codec.transfer = <<1, 1>>

\* C28, what the code does: the transfers of the daemon's own traffic are within
\* the buffers; a read request is within them exactly when the client asks for
\* at most 65532 bytes (or for so many that length + 4 wraps around), a write
\* request exactly when its payload has 4 to 65537 bytes.
C28_WithinBuffersUpToClient ==
  /\ \A n \in OwnTransfers : U32Leq(n, BufSize)
  /\ codec.stage = "done" =>
       /\ codec.type = MSG_READ_MEM_REQ =>
            (U32Leq(codec.transfer, BufSize) <=>
               \/ U32Leq(codec.length, <<0, 65532>>)
               \/ U32Leq(<<65535, 65532>>, codec.length))
       /\ codec.type = MSG_WRITE_MEM_REQ =>
            (U32Leq(codec.filled, BufSize) /\ U32Leq(codec.transfer, BufSize) <=>
               U32Leq(<<0, 4>>, codec.length) /\ U32Leq(codec.length, <<1, 1>>))

(***************************************************************************)
(* C29                                                                     *)
(***************************************************************************)
\* The packets of a sequence that are for one channel.
OfChannel(pkts, c) == SelectSeq(pkts, LAMBDA p : p.channel_id = c)

\* a is the beginning of b.
IsPrefix(a, b) == Len(a) <= Len(b) /\ SubSeq(b, 1, Len(a)) = a

\* Channel a is put on send_queue before channel b when pkts are enqueued.
QueuedBefore(pkts, a, b) ==
  \E j \in 1..Len(pkts) :
     /\ pkts[j].channel_id = a
     /\ \A i \in 1..j : pkts[i].channel_id # b

\* w takes the packets pkts in turns: of each channel its packets in their order
\* and, of two channels, one of the first and then one of the second as long as
\* both have packets.
InTurns(w, pkts) ==
  /\ \A c \in 1..MaxChannelId : IsPrefix(OfChannel(w, c), OfChannel(pkts, c))
  /\ \A a \in 1..MaxChannelId, b \in 1..MaxChannelId :
        a # b /\ QueuedBefore(pkts, a, b) =>
          \A n \in 0..Len(w) :
             \E na \in {Len(OfChannel(SubSeq(w, 1, n), a))},
                nb \in {Len(OfChannel(SubSeq(w, 1, n), b))} :
                /\ nb < Len(OfChannel(pkts, b)) => na - nb <= 1
                /\ na < Len(OfChannel(pkts, a)) => nb <= na

\* The bytes of whole packets: length, type, channel id, payload.
Framed(w) ==
  Concat([j \in 1..Len(w) |->
            <<Len(w[j].data), w[j].type, w[j].channel_id>> \o w[j].data])

\* C29: flush_send_queue writes whole packets only.  What it puts into send_buf
\* are the bytes of the packets it takes, within the free space of the ring; it
\* takes the front packet of the channel at the front of send_queue, and the
\* channels in turns; it stops at the first packet whose 3 + payload bytes are
\* more than the space left: that packet is the one whose turn it is, it stays
\* whole at the front of its queue with its channel at the front of send_queue,
\* and no packet behind it is written, fitting or not.
C29_FlushWritesWholePacketsInTurns ==
  codec.stage \in {"decode", "done"} =>
    \E st \in {flush_send_queue(CodecState(codec.head, codec.tail, codec.packets))} :
    \E left \in {255 - ((codec.tail - codec.head) % 256)} :
       /\ codec.send_buf = Framed(codec.written)
       /\ Len(codec.send_buf) <= left
       /\ InTurns(codec.written, codec.packets)
       /\ codec.written # <<>> => codec.written[1] = codec.packets[1]
       /\ \A c \in 1..MaxChannelId :
             OfChannel(codec.written, c)
               \o [j \in 1..Len(ChannelOut([st EXCEPT !.log.written = <<>>], c)) |->
                     [type |-> ChannelOut([st EXCEPT !.log.written = <<>>], c)[j].type,
                      channel_id |-> c,
                      data |-> ChannelOut([st EXCEPT !.log.written = <<>>], c)[j].data]]
               = OfChannel(codec.packets, c)
       /\ IF Len(codec.written) = Len(codec.packets) THEN st.send_queue = <<>>
          ELSE /\ st.send_queue # <<>>
               /\ \E ci \in {ChanIdx(st, Head(st.send_queue))} :
                  \E pb \in {st.channels[ci].packet_queue[1]} :
                     /\ InTurns(Append(codec.written,
                                       [type |-> pb.type,
                                        channel_id |-> Head(st.send_queue),
                                        data |-> pb.data]),
                                codec.packets)
                     /\ 3 + Len(pb.data) > left - Len(codec.send_buf)

\* C29, the case reached: two packets of one channel and one of another are
\* written in turns, the second channel between the two packets of the first.
C29_Witness ==
  /\ codec.stage = "decode"
  /\ Len(codec.packets) = 3
  /\ codec.packets[1].channel_id = 1
  /\ codec.packets[2].channel_id = 1
  /\ codec.packets[3].channel_id = 2
  /\ Len(codec.written) = 3
  /\ codec.written[2] = codec.packets[3]
  /\ codec.written[3] = codec.packets[2]

\* C29, the case reached: the flush has stopped at a packet that does not fit
\* although the packet behind it would.
C29_WitnessStop ==
  /\ codec.stage = "decode"
  /\ Len(codec.packets) = 3
  /\ Len(codec.written) = 1
  /\ 3 + Len(codec.packets[3].data)
       <= 255 - ((codec.tail - codec.head) % 256) - Len(codec.send_buf)
  /\ codec.packets[2].channel_id = 1
  /\ codec.packets[3].channel_id = 2

(***************************************************************************)
(* C30                                                                     *)
(***************************************************************************)
\* The bytes of the first k messages of a stream.
StreamBytes(ms, k) ==
  Concat([j \in 1..k |-> MessageData(ms[j][1], ms[j][2], ms[j][3])])

\* The messages of the stream whose bytes are all among the first n bytes.
ArrivedWhole(ms, n) ==
  SubSeq(ms, 1, CHOOSE k \in 0..Len(ms) :
                   /\ Len(StreamBytes(ms, k)) <= n
                   /\ k < Len(ms) => Len(StreamBytes(ms, k + 1)) > n)

\* C30: however read() splits the byte stream of a client, and wherever EAGAIN
\* ends an event, the messages handed to handle_received_message are those of
\* the stream whose last byte has been read: each once, in order, with the type,
\* stream id and length of its header and exactly length payload bytes, and
\* none before all its bytes have arrived.
C30_DispatchesTheMessagesOfTheStream ==
  codec.stage = "recv" =>
    \E n \in {Len(StreamBytes(codec.sent, Len(codec.sent))) - Len(codec.input)} :
       /\ Len(codec.dispatched) = Len(ArrivedWhole(codec.sent, n))
       /\ \A j \in 1..Len(codec.dispatched) :
             /\ codec.dispatched[j].type = codec.sent[j][1]
             /\ codec.dispatched[j].stream_id = codec.sent[j][2]
             /\ codec.dispatched[j].length = Len(codec.sent[j][3])
             /\ codec.dispatched[j].payload = codec.sent[j][3]
       /\ codec.input = <<>> => Len(codec.dispatched) = Len(codec.sent)

\* C30, the case reached: the reads have ended inside the payload of the second
\* message, after a first message without payload and before a third message.
C30_Witness ==
  /\ codec.stage = "recv"
  /\ Len(codec.sent) = 3
  /\ codec.sent[1][3] = <<>>
  /\ Len(codec.sent[2][3]) = 2
  /\ Len(codec.dispatched) = 1
  /\ codec.payload # <<>>
  /\ codec.bytes_read = 1

\* C30, the case reached: the three messages of a stream have been dispatched.
C30_WitnessAll ==
  /\ codec.stage = "recv"
  /\ Len(codec.sent) = 3
  /\ Len(codec.dispatched) = 3
  /\ codec.input = <<>>

(***************************************************************************)
(* C31                                                                     *)
(***************************************************************************)
\* C31: between event handlers, while have_base_address is false there is no
\* channel and send_queue is empty; so the handler of a client event, with the
\* flush main_loop makes after it, writes no packet and no byte to the SRAM and
\* posts no mask to A_EVENTS while no base address is known.
C31_NothingToFlushWithoutBaseAddress ==
  ~have_base_address =>
    /\ channels = <<>>
    /\ send_queue = <<>>
    /\ ClientReady =>
         \A x \in ClientInputs : \E st \in {ClientRun(x)} :
            /\ st.log.written = <<>>
            /\ st.log.bus = <<>>
            /\ st.log.posted = <<>>
            /\ ~st.exited => st.channels = <<>> /\ st.send_queue = <<>>

\* C31, the case reached: the base address was known and has been lost (the
\* last rediscovery read no valid address), a client that had a stream before is
\* still connected, and it sends MSG_DATA, which its handler takes and returns.
C31_Witness ==
  /\ ClientReady
  /\ ~have_base_address
  /\ base_address # 0
  /\ \E x \in ClientInputs :
        /\ connections[x[1]].next_stream_id > 1
        /\ x[2].msgs # <<>>
        /\ x[2].msgs[1].type = MSG_DATA
        /\ ~ClientRun(x).exited

\* C31, the case reached: main_loop has entered its loop without a base address
\* (R_EVENTS read 0 in the first call of handle_a314_irq) and a client is
\* connected.
C31_WitnessFromStart ==
  /\ ClientReady
  /\ ~have_base_address
  /\ base_address = 0
  /\ connections # <<>>

(***************************************************************************)
(* C32                                                                     *)
(***************************************************************************)
\* A channel record that is unassociated and has nothing left to send.
LeftBehind(ch) == ch.association = Nullptr /\ ch.packet_queue = <<>>

\* C32: between event handlers every channel is associated with a client or has
\* a non-empty packet_queue, and every handler that returns (interrupt, client
\* event with its flush, SIGTERM) leaves the channels so.
C32_NoChannelLeftBehind ==
  /\ \A k \in 1..Len(channels) : ~LeftBehind(channels[k])
  /\ \A st \in Runs :
        ~st.exited => \A k \in 1..Len(st.channels) : ~LeftBehind(st.channels[k])

\* C32, the case reached: a channel is unassociated and holds packets for the
\* peer, and the next interrupt writes them to the ring and erases the channel.
C32_Witness ==
  /\ IrqReady
  /\ \E k \in 1..Len(channels) :
        /\ channels[k].association = Nullptr
        /\ channels[k].packet_queue # <<>>
        /\ \E x \in IrqInputs : \E st \in {IrqRun(x)} :
              /\ ~st.exited
              /\ x[3] = <<>>
              /\ st.log.written # <<>>
              /\ ChanIdx(st, channels[k].channel_id) = 0

\* C32, the case reached: the peer resets an associated channel that has nothing
\* to send, and the handler erases the channel.
C32_WitnessReset ==
  /\ IrqReady
  /\ \E k \in 1..Len(channels) :
        /\ channels[k].association # Nullptr
        /\ channels[k].packet_queue = <<>>
        /\ \E x \in IrqInputs : \E st \in {IrqRun(x)} :
              /\ ~st.exited
              /\ Len(x[3]) = 1
              /\ x[3][1].type = PKT_RESET
              /\ x[3][1].channel_id = channels[k].channel_id
              /\ ChanIdx(st, channels[k].channel_id) = 0

\* C32, the case reached: a client closes with an associated channel; the
\* channel stays, unassociated, with the PKT_RESET the ring has no room for.
C32_WitnessClose ==
  /\ ClientReady
  /\ \E x \in ClientInputs : \E st \in {ClientRun(x)} :
        /\ ~st.exited
        /\ st.log.closes # <<>>
        /\ \E k \in 1..Len(st.channels) :
              /\ st.channels[k].association = Nullptr
              /\ st.channels[k].packet_queue # <<>>

(***************************************************************************)
(* C33                                                                     *)
(***************************************************************************)
\* The free space of the R2A ring computed from a copy of the channel status:
\* 255 - ((R2A_TAIL - R2A_HEAD) & 0xFF).
FreeSpace(status) ==
  255 - ((status[R2A_TAIL_OFFSET + 1] - status[R2A_HEAD_OFFSET + 1]) % 256)

\* The bytes the packet at the front of send_queue needs in the ring.
FrontNeeds(chs, sq) ==
  3 + Len(Head(chs[ChanIdx([channels |-> chs], Head(sq))].packet_queue).data)

\* Nothing is queued that would fit, by the daemon's in-memory channel status.
NothingFits(chs, sq, status) ==
  sq = <<>> \/ FrontNeeds(chs, sq) > FreeSpace(status)

\* C33: when a handler returns (interrupt, client event with its flush, SIGTERM),
\* send_queue is empty or the packet at its front needs more bytes, 3 + payload,
\* than are free in the R2A ring by the daemon's in-memory status; so it is in
\* every state between handlers.
C33_NoFittingPacketLeftQueued ==
  /\ NothingFits(channels, send_queue, channel_status)
  /\ \A st \in Runs :
        ~st.exited => NothingFits(st.channels, st.send_queue, st.channel_status)

\* C33, the case reached: a client event enqueues a packet while the ring, by the
\* daemon's status, holds bytes; the flush writes nothing, and the packet, which
\* an empty ring has room for, stays at the front of send_queue.
C33_Witness ==
  /\ ClientReady
  /\ send_queue = <<>>
  /\ FreeSpace(channel_status) < 255
  /\ \E x \in ClientInputs : \E st \in {ClientRun(x)} :
        /\ ~st.exited
        /\ st.log.written = <<>>
        /\ st.send_queue # <<>>
        /\ FrontNeeds(st.channels, st.send_queue) <= 255
        /\ FrontNeeds(st.channels, st.send_queue) > FreeSpace(st.channel_status)

\* C33, the case reached: an interrupt reads a new channel status and its flush
\* writes the packet that was waiting, leaving send_queue empty.
C33_WitnessIrq ==
  /\ IrqReady
  /\ send_queue # <<>>
  /\ \E x \in IrqInputs : \E st \in {IrqRun(x)} :
        /\ ~st.exited
        /\ FreeSpace(st.channel_status) < FreeSpace(channel_status)
        /\ st.log.written # <<>>
        /\ st.send_queue = <<>>

\* C33, the case reached: SIGTERM resets a channel and the PKT_RESET has no room.
C33_WitnessSigterm ==
  /\ ClientReady
  /\ \E st \in {SigtermRun} :
        /\ st.send_queue # <<>>
        /\ FrontNeeds(st.channels, st.send_queue) = 3
        /\ FreeSpace(st.channel_status) < 3

(***************************************************************************)
(* C34                                                                     *)
(***************************************************************************)
\* The PKT_DATA packets in a packet_queue, and in that of the channel with an id
\* (none when there is no such channel).
DataIn(pq) == Len(SelectSeq(pq, LAMBDA p : p.type = PKT_DATA))
DataQueuedOn(chs, channel_id) ==
  IF ChanIdx([channels |-> chs], channel_id) = 0 THEN 0
  ELSE DataIn(chs[ChanIdx([channels |-> chs], channel_id)].packet_queue)

\* The handler run st has enqueued a PKT_DATA for the channel: there are more of
\* them, written or still queued, than were queued before.
DataEnqueued(st, channel_id) ==
  Len(SelectSeq(st.log.written,
                LAMBDA w : w.type = PKT_DATA /\ w.channel_id = channel_id))
    + DataQueuedOn(st.channels, channel_id)
  > DataQueuedOn(channels, channel_id)

\* The client events of ClientInputs that bring one MSG_DATA on the stream of
\* channel k from the client it is associated with.
DataOnStream(k) ==
  {x \in ClientInputs :
     /\ channels[k].association = connections[x[1]].id
     /\ Len(x[2].msgs) = 1
     /\ x[2].msgs[1].type = MSG_DATA
     /\ x[2].msgs[1].stream_id = channels[k].stream_id}

\* C34: once the MSG_EOS of a client has been accepted on a channel
\* (got_eos_from_client), no handler of a client event enqueues a PKT_DATA for
\* that channel, whatever the client sends.
C34_NoDataAfterClientEos ==
  ClientReady =>
    \A k \in 1..Len(channels) :
       channels[k].got_eos_from_client =>
         \A x \in ClientInputs : ~DataEnqueued(ClientRun(x), channels[k].channel_id)

\* C34, the case reached: a channel has had the MSG_EOS of its client and is
\* still associated (the peer has sent no PKT_EOS); the client sends MSG_DATA on
\* the stream, and the handler writes a PKT_DATA for the channel into the ring.
C34_Witness ==
  /\ ClientReady
  /\ \E k \in 1..Len(channels) :
        /\ channels[k].got_eos_from_client
        /\ ~channels[k].got_eos_from_ami
        /\ \E x \in DataOnStream(k) : \E st \in {ClientRun(x)} :
              /\ ~st.exited
              /\ \E j \in 1..Len(st.log.written) :
                    /\ st.log.written[j].type = PKT_DATA
                    /\ st.log.written[j].channel_id = channels[k].channel_id

\* C34, the case reached: a packet_queue holds a PKT_DATA behind the PKT_EOS of
\* its channel, to be written to the peer in that order.
C34_WitnessQueued ==
  \E k \in 1..Len(channels) :
     /\ Len(channels[k].packet_queue) = 2
     /\ channels[k].packet_queue[1].type = PKT_EOS
     /\ channels[k].packet_queue[2].type = PKT_DATA

\* C34, what the code does: handle_msg_data tests the association alone.  A
\* MSG_DATA on the stream of an associated channel is enqueued as PKT_DATA whether
\* or not the client has sent MSG_EOS before (unless the connection is closed in
\* the same handler); no PKT_DATA is enqueued for a channel that is not
\* associated, and a second MSG_EOS enqueues nothing.
C34_DataEnqueuedWhileAssociated ==
  ClientReady =>
    \A k \in 1..Len(channels) :
       /\ \A x \in DataOnStream(k) :
             ~ClientRun(x).exited /\ ClientRun(x).log.closes = <<>>
             => DataEnqueued(ClientRun(x), channels[k].channel_id)
       /\ channels[k].association = Nullptr =>
             \A x \in ClientInputs : ~DataEnqueued(ClientRun(x), channels[k].channel_id)
       /\ channels[k].got_eos_from_client =>
             \A x \in ClientInputs : \E st \in {ClientRun(x)} :
                /\ Len(x[2].msgs) = 1
                /\ x[2].msgs[1].type = MSG_EOS
                /\ x[2].msgs[1].stream_id = channels[k].stream_id
                /\ channels[k].association = connections[x[1]].id
                /\ ~st.exited
                /\ st.log.closes = <<>>
                => /\ \A j \in 1..Len(st.log.written) :
                         st.log.written[j].type = PKT_EOS
                         => st.log.written[j].ahead > 0
                            \/ \E i \in 1..Len(channels[k].packet_queue) :
                                  channels[k].packet_queue[i].type = PKT_EOS
                   /\ ChanIdx(st, channels[k].channel_id) # 0
                        => Len(st.channels[ChanIdx(st, channels[k].channel_id)].packet_queue)
                             <= Len(channels[k].packet_queue)

(***************************************************************************)
(* C35                                                                     *)
(***************************************************************************)
\* The requests of one kind the program has started and whose reply it has not
\* taken from async_mp: those the handler still holds and those replied.
Outstanding(msg, held) ==
  held + Len(SelectSeq(codec.port, LAMBDA m : m.msg = msg))

\* C35: in picmd at most one A314 read request and at most one console wait
\* request are outstanding at any time, the two pending flags say which; no
\* request is started once stream_closed is set, and the event loop is left only
\* with stream_closed set and neither request pending or outstanding.
C35_OneRequestOfEachKind ==
  codec.stage = "picmd" =>
    /\ Outstanding("read_ior", codec.a314_reads) <= 1
    /\ Outstanding("wait_sp", codec.con_waits) <= 1
    /\ codec.pending_a314_read
         <=> (Outstanding("read_ior", codec.a314_reads) = 1)
    /\ codec.pending_con_wait
         <=> (Outstanding("wait_sp", codec.con_waits) = 1)
    /\ ~codec.late
    /\ codec.at = "exit" =>
         /\ codec.stream_closed
         /\ ~codec.pending_a314_read
         /\ ~codec.pending_con_wait
         /\ Outstanding("read_ior", codec.a314_reads) = 0
         /\ Outstanding("wait_sp", codec.con_waits) = 0

\* C35, the case reached: the stream was closed by the end of the console input
\* (A314_RESET sent) after data had been written, the replies of both requests
\* were taken after that, and the loop has been left.
C35_Witness ==
  /\ codec.stage = "picmd"
  /\ codec.at = "exit"
  /\ codec.cmds = <<"A314_WRITE", "A314_RESET">>

\* C35, the case reached: the stream was closed by A314_READ_EOS while the
\* console wait is still with the console; the loop goes on until its reply has
\* been taken, and no new wait is started then.
C35_WitnessClosing ==
  /\ codec.stage = "picmd"
  /\ codec.at = "Wait"
  /\ codec.stream_closed
  /\ codec.pending_con_wait
  /\ ~codec.pending_a314_read
  /\ codec.con_waits = 1
  /\ codec.cmds = <<"A314_EOS">>

====
